---------------------------- MODULE Spec2Model ----------------------------
(***************************************************************************)
(* Model of the asset-manager back end: the SQLite tables it keeps, the    *)
(* rebalancing engine and its route, the holding matcher, the statement    *)
(* upload handler, the bulk target commit and the vertical-layout Open     *)
(* Positions parser.                                                       *)
(*                                                                         *)
(* Numbers.  The program computes in IEEE doubles; the model computes in   *)
(* exact integers.  Inside calculateRebalancing every percentage that the  *)
(* code obtains by dividing by totalValue is kept as its numerator over    *)
(* totalValue (currentAllocation, deviation), and every amount that the    *)
(* code obtains by dividing by 100 is kept times 100 (targetValue,         *)
(* adjustmentNeeded, amount, totalBuy, totalSell, netCashNeeded).  The     *)
(* tolerance is kept in hundredths of a percentage point (tolerance100 =   *)
(* 100 * tolerance), so the default 0.01 is 1.                             *)
(***************************************************************************)
EXTENDS Integers, Sequences, FiniteSets, TLC

VARIABLES
  holdings,            \* table holdings, in rowid order
  target_allocations,  \* table target_allocations, in rowid order
  target_history,      \* table target_history, in rowid order
  symbol_mappings,     \* table symbol_mappings, in rowid order
  seq_target,          \* sqlite_sequence of target_allocations (AUTOINCREMENT)
  request,             \* the query of the last GET /api/rebalancing
  plan,                \* <<>> or <<the RebalancingPlan it answered>>
  matchIn,             \* the arguments of the last matchHoldingsToTargets call
  matchOut,            \* <<>> or <<its result>>
  targetsLog,          \* the last request to the targets router and its outcome
  portfolio_snapshots, \* table portfolio_snapshots with its snapshot_allocations
  uploads,             \* the POST /api/statements/upload requests, by arrival
  finished,            \* the uploads answered 200, in the order of the answers
  text,                \* the Open Positions section given to parseOpenPositions
  cursor,              \* i, the 0-based index of the line the vertical loop is at
  parsedHoldings,      \* holdings, the array the parser returns
  parserLog,           \* where the parser is and what its last iteration did
  parses,              \* the parser calls that have returned: their text and holdings
  lookupRequest,       \* the request whose handler looks names up, and the services' answers
  lookups,             \* per target: the lookup it awaits, its name, its warnings
  lookupPc,            \* where that handler is
  targetFile,          \* the target file of the last upload-excel-preview request
  preview              \* <<>> or <<what the parser returned and the handler answered>>

dbVars == <<holdings, target_allocations, target_history, symbol_mappings, seq_target>>
rebVars == <<request, plan>>
matchVars == <<matchIn, matchOut>>
targetsVars == <<targetsLog>>
uploadVars == <<portfolio_snapshots, uploads, finished>>
parserVars == <<text, cursor, parsedHoldings, parserLog, parses>>
lookupVars == <<lookupRequest, lookups, lookupPc>>
importVars == <<targetFile, preview>>
vars == <<dbVars, rebVars, matchVars, targetsVars, uploadVars, parserVars, lookupVars,
          importVars>>

-----------------------------------------------------------------------------
(* Bounds of the model *)

MaxHoldings == 2
MaxTargets == 2
MaxHistory == 3
MaxUploads == 2
MaxRows == 3
MaxIterations == 12

-----------------------------------------------------------------------------
(* Small helpers *)

Abs(x) == IF x < 0 THEN -x ELSE x

Range(s) == {s[k] : k \in DOMAIN s}

SeqsUpTo(S, n) == UNION {[1..m -> S] : m \in 0..n}

\* Array.prototype.sort with a comparator: stable, so the element at index j
\* comes before the one at index i iff <<j, i>> is in `before`, a strict total
\* order on the indices (comparator < 0, or comparator = 0 and j < i).
StableSort(s, before) ==
  [p \in 1..Len(s) |->
     s[CHOOSE i \in 1..Len(s) :
         Cardinality({j \in 1..Len(s) : <<j, i>> \in before}) = p - 1]]

\* String.prototype.toUpperCase on the strings of the model.
Upper(s) ==
  CASE s = "Cash" -> "CASH"
    [] s = "vti" -> "VTI"
    [] s = "us1" -> "US1"
    [] OTHER -> s

\* String.prototype.toLowerCase on the categories of the model.
Lower(s) ==
  CASE s = "Cash" -> "cash"
    [] s = "World" -> "world"
    [] s = "WORLD" -> "world"
    [] s = "US" -> "us"
    [] OTHER -> s

\* String.prototype.includes on the strings of the model: a string includes
\* itself, the empty string, and the listed proper substrings.
Includes(s, sub) ==
  \/ s = sub
  \/ sub = ""
  \/ <<s, sub>> \in {<<"VTI", "VT">>, <<"VXUS", "VX">>, <<"VXUS", "US">>}

-----------------------------------------------------------------------------
(* calculateRebalancing *)

\* The keys one target sets in tickerTargetMap: its primary symbol and its
\* alternative tickers, upper-cased; none for a target without symbol.
TickerKeys(t) ==
  IF t.symbol # ""
    THEN {Upper(t.symbol)} \cup
         {Upper(a) : a \in {b \in Range(t.alternative_tickers) : b # ""}}
    ELSE {}

\* The key of a category-level entry: `${asset_type}|${asset_category || ''}`.
CategoryKey(r) == <<r.asset_type, r.asset_category>>

\* tickerTargetMap after the loop over the targets: a later Map.set overwrites.
TickerTargetMap(targets) ==
  LET keys == UNION {TickerKeys(targets[k]) : k \in DOMAIN targets}
      last(s) == CHOOSE k \in DOMAIN targets :
                   /\ s \in TickerKeys(targets[k])
                   /\ \A j \in DOMAIN targets : s \in TickerKeys(targets[j]) => j <= k
  IN [s \in keys |-> targets[last(s)].target_percentage]

\* categoryTargetMap after the loop: every target without symbol, keyed by its
\* category key (also a symbol-less target that has alternative tickers).
CategoryTargetMap(targets) ==
  LET cat == {k \in DOMAIN targets : targets[k].symbol = ""}
      keys == {CategoryKey(targets[k]) : k \in cat}
      last(c) == CHOOSE k \in cat :
                   /\ CategoryKey(targets[k]) = c
                   /\ \A j \in cat : CategoryKey(targets[j]) = c => j <= k
  IN [c \in keys |-> targets[last(c)].target_percentage]

\* symbolMappings?.get(holdingSymbol): "" stands for undefined.
MappedSymbol(symbolMappings, holdingSymbol) ==
  IF holdingSymbol \in DOMAIN symbolMappings THEN symbolMappings[holdingSymbol] ELSE ""

\* One pass of the aggregation loop: the entries of tickerAllocations in
\* insertion order.  allocation is the numerator of the percentage over
\* totalValue, (value_usd / totalValue) * 100.
AggregateStep(acc, holding, symbolMappings) ==
  IF Upper(holding.symbol) = "CASH" THEN acc
  ELSE
    LET allocation == holding.value_usd * 100
        holdingSymbol == Upper(holding.symbol)
        mappedSymbol == MappedSymbol(symbolMappings, holdingSymbol)
        keySymbol == IF mappedSymbol # "" THEN mappedSymbol ELSE holdingSymbol
        at == {k \in DOMAIN acc : acc[k].key = keySymbol}
    IN IF at # {}
         THEN [k \in DOMAIN acc |->
                 IF k \in at
                   THEN [acc[k] EXCEPT !.allocation = @ + allocation]
                   ELSE acc[k]]
         ELSE Append(acc, [key |-> keySymbol, holding |-> holding,
                           allocation |-> allocation, mappedSymbol |-> mappedSymbol])

RECURSIVE TickerAllocations(_, _, _, _)
TickerAllocations(hs, k, symbolMappings, acc) ==
  IF k > Len(hs) THEN acc
  ELSE TickerAllocations(hs, k + 1, symbolMappings,
                         AggregateStep(acc, hs[k], symbolMappings))

\* Target resolution of one entry, the category-level target consulted first.
ResolveTargetMutant(entry, tickerTargetMap, categoryTargetMap) ==
  LET targetSymbol == IF entry.mappedSymbol # "" THEN entry.mappedSymbol ELSE entry.key
      own == Upper(entry.holding.symbol)
      categoryKey == CategoryKey(entry.holding)
  IN IF categoryKey \in DOMAIN categoryTargetMap
       THEN <<categoryTargetMap[categoryKey], TRUE>>
     ELSE IF targetSymbol \in DOMAIN tickerTargetMap
       THEN <<tickerTargetMap[targetSymbol], TRUE>>
     ELSE IF own \in DOMAIN tickerTargetMap
       THEN <<tickerTargetMap[own], TRUE>>
     ELSE <<0, FALSE>>

\* Target resolution of one entry: <<targetPct, hasAnyTarget>>.
ResolveTarget(entry, tickerTargetMap, categoryTargetMap) ==
  LET targetSymbol == IF entry.mappedSymbol # "" THEN entry.mappedSymbol ELSE entry.key
      own == Upper(entry.holding.symbol)
      categoryKey == CategoryKey(entry.holding)
  IN IF targetSymbol \in DOMAIN tickerTargetMap
       THEN <<tickerTargetMap[targetSymbol], TRUE>>
     ELSE IF own \in DOMAIN tickerTargetMap
       THEN <<tickerTargetMap[own], TRUE>>
     ELSE IF categoryKey \in DOMAIN categoryTargetMap
       THEN <<categoryTargetMap[categoryKey], TRUE>>
     ELSE <<0, FALSE>>

\* |deviation| <= tolerance, with deviation over totalValue and the tolerance
\* in hundredths of a percentage point.
WithinToleranceMutant(deviation, totalValue, tolerance100) ==
  100 * Abs(deviation) < tolerance100 * totalValue

WithinTolerance(deviation, totalValue, tolerance100) ==
  100 * Abs(deviation) <= tolerance100 * totalValue

\* The status of one entry.
StatusOf(currentPct, targetPct, hasAnyTarget, deviation, totalValue, tolerance100) ==
  IF ~hasAnyTarget /\ targetPct = 0 /\ currentPct > 0 THEN "needs_sell"
  ELSE IF targetPct = 0 /\ currentPct = 0 THEN "balanced"
  ELSE IF WithinTolerance(deviation, totalValue, tolerance100) THEN "balanced"
  ELSE IF deviation < 0 THEN "needs_buy"
  ELSE "needs_sell"

\* The body of the loop over tickerAllocations for one entry: the AssetStatus
\* it pushes, the action it pushes (if any) and the totals it adds to.
PlanStep(acc, entry, tickerTargetMap, categoryTargetMap, totalValue, tolerance100) ==
  LET res == ResolveTarget(entry, tickerTargetMap, categoryTargetMap)
      targetPct == res[1]
      hasAnyTarget == res[2]
      holding == entry.holding
      currentPct == entry.allocation
      currentValue == holding.value_usd
      targetValue == targetPct * totalValue
      deviation == currentPct - targetPct * totalValue
      adjustmentNeeded == targetValue - 100 * currentValue
      status == StatusOf(currentPct, targetPct, hasAnyTarget, deviation,
                         totalValue, tolerance100)
      asset == [symbol |-> holding.symbol,
                currentAllocation |-> currentPct,
                targetAllocation |-> targetPct,
                deviation |-> deviation,
                status |-> status,
                currentValue |-> currentValue,
                targetValue |-> targetValue,
                adjustmentNeeded |-> adjustmentNeeded,
                mappedTargetSymbol |-> entry.mappedSymbol,
                assetType |-> holding.asset_type]
      forced == ~hasAnyTarget /\ targetPct = 0 /\ currentPct > 0
      act(kind, amount, dev, st) ==
        [symbol |-> holding.symbol, action |-> kind,
         quantity |-> <<amount, 100 * holding.price>>,
         amount |-> amount,
         currentAllocation |-> currentPct,
         targetAllocation |-> targetPct,
         deviation |-> dev,
         status |-> st]
      withAsset == [acc EXCEPT !.allAssets = Append(@, asset)]
  IN IF (targetPct > 0 /\ ~WithinTolerance(deviation, totalValue, tolerance100)) \/ forced
       THEN IF forced
              THEN [withAsset EXCEPT
                      !.totalSell = @ + 100 * currentValue,
                      !.actions = Append(@, act("SELL", 100 * currentValue, currentPct, "needs_sell"))]
            ELSE IF adjustmentNeeded > 0
              THEN [withAsset EXCEPT
                      !.totalBuy = @ + adjustmentNeeded,
                      !.actions = Append(@, act("BUY", adjustmentNeeded, -deviation, "needs_buy"))]
            ELSE [withAsset EXCEPT
                      !.totalSell = @ + Abs(adjustmentNeeded),
                      !.actions = Append(@, act("SELL", Abs(adjustmentNeeded), deviation, "needs_sell"))]
       ELSE withAsset

RECURSIVE PlanLoop(_, _, _, _, _, _, _)
PlanLoop(entries, k, tickerTargetMap, categoryTargetMap, totalValue, tolerance100, acc) ==
  IF k > Len(entries) THEN acc
  ELSE PlanLoop(entries, k + 1, tickerTargetMap, categoryTargetMap, totalValue, tolerance100,
                PlanStep(acc, entries[k], tickerTargetMap, categoryTargetMap,
                         totalValue, tolerance100))

StatusOrder(st) == CASE st = "needs_buy" -> 0 [] st = "needs_sell" -> 1 [] OTHER -> 2

\* The returned actions: sorted by |deviation|, descending.
SortActions(actions) ==
  LET before(j, i) ==
        \/ Abs(actions[j].deviation) > Abs(actions[i].deviation)
        \/ Abs(actions[j].deviation) = Abs(actions[i].deviation) /\ j < i
  IN StableSort(actions, {ji \in (DOMAIN actions) \X (DOMAIN actions) : before(ji[1], ji[2])})

\* The returned allAssets: by status priority, then by |deviation|, descending.
SortAssets(assets) ==
  LET cmp(j, i) ==
        IF StatusOrder(assets[j].status) # StatusOrder(assets[i].status)
          THEN StatusOrder(assets[j].status) - StatusOrder(assets[i].status)
          ELSE Abs(assets[i].deviation) - Abs(assets[j].deviation)
      before(j, i) == cmp(j, i) < 0 \/ (cmp(j, i) = 0 /\ j < i)
  IN StableSort(assets, {ji \in (DOMAIN assets) \X (DOMAIN assets) : before(ji[1], ji[2])})

NetCashNeededMutant(totalBuy, totalSell) == totalSell - totalBuy

NetCashNeeded(totalBuy, totalSell) == totalBuy - totalSell

calculateRebalancing(hs, targets, totalValue, tolerance100, symbolMappings) ==
  LET tickerTargetMap == TickerTargetMap(targets)
      categoryTargetMap == CategoryTargetMap(targets)
      tickerAllocations == TickerAllocations(hs, 1, symbolMappings, <<>>)
      acc == PlanLoop(tickerAllocations, 1, tickerTargetMap, categoryTargetMap,
                      totalValue, tolerance100,
                      [actions |-> <<>>, allAssets |-> <<>>, totalBuy |-> 0, totalSell |-> 0])
  IN [actions |-> SortActions(acc.actions),
      allAssets |-> SortAssets(acc.allAssets),
      totalValue |-> totalValue,
      totalBuy |-> acc.totalBuy,
      totalSell |-> acc.totalSell,
      netCashNeeded |-> NetCashNeeded(acc.totalBuy, acc.totalSell)]

-----------------------------------------------------------------------------
(* GET /api/rebalancing *)

\* MAX(statement_date) of an account's holdings.
MaxDate(rows, account) ==
  CHOOSE d \in {r.statement_date : r \in {x \in Range(rows) : x.account_id = account}} :
    \A r \in Range(rows) : r.account_id = account => r.statement_date <= d

\* The latest holdings of every account, or of the one account asked for
\* (account_id = 0: no account_id in the query).
LatestHoldings(rows, account_id) ==
  SelectSeq(rows, LAMBDA h : /\ (account_id # 0 => h.account_id = account_id)
                             /\ h.statement_date = MaxDate(rows, h.account_id))

\* symbol_mappings JOIN target_allocations, for one account or for all, as the
\* Map the route builds: keys and values upper-cased, rows whose target has no
\* symbol left out, a later row overwriting an earlier one with the same key.
SymbolMappingsMap(mappings, targets, account_id) ==
  LET targetOf(m) == {k \in DOMAIN targets : targets[k].id = m.target_id}
      joined == {k \in DOMAIN mappings :
                   /\ (account_id # 0 => mappings[k].account_id = account_id)
                   /\ \E t \in targetOf(mappings[k]) : targets[t].symbol # ""}
      keys == {Upper(mappings[k].holding_symbol) : k \in joined}
      last(s) == CHOOSE k \in joined :
                   /\ Upper(mappings[k].holding_symbol) = s
                   /\ \A j \in joined : Upper(mappings[j].holding_symbol) = s => j <= k
      symbolOf(m) == targets[CHOOSE t \in targetOf(m) : TRUE].symbol
  IN [s \in keys |-> Upper(symbolOf(mappings[last(s)]))]

RECURSIVE SumValueUsd(_, _)
SumValueUsd(hs, k) == IF k > Len(hs) THEN 0 ELSE hs[k].value_usd + SumValueUsd(hs, k + 1)

\* holdings.reduce((sum, h) => sum + h.value_usd, 0)
RouteTotalValue(hs) == SumValueUsd(hs, 1)

RebalancingRoute(rows, targets, mappings, tolerance100, account_id) ==
  LET hs == LatestHoldings(rows, account_id)
  IN IF Len(targets) = 0
       THEN [actions |-> <<>>, allAssets |-> <<>>, totalValue |-> 0,
             totalBuy |-> 0, totalSell |-> 0, netCashNeeded |-> 0]
       ELSE calculateRebalancing(hs, targets, RouteTotalValue(hs), tolerance100,
                                 SymbolMappingsMap(mappings, targets, account_id))

\* One request per behaviour: the route keeps no state between requests.
GetRebalancing(tolerance100, account_id) ==
  /\ plan = <<>>
  /\ request' = [tolerance100 |-> tolerance100, account_id |-> account_id]
  /\ plan' = <<RebalancingRoute(holdings, target_allocations, symbol_mappings,
                                tolerance100, account_id)>>
  /\ UNCHANGED <<dbVars, matchVars, targetsVars, uploadVars, parserVars, lookupVars, importVars>>

-----------------------------------------------------------------------------
(* The inputs of the rebalancing specification *)

Accounts == {1, 2}

\* Tolerances of a request, in hundredths of a percentage point: the default
\* 0.01, 1.0 and 25.0.
Tolerances100 == {1, 100, 2500}

TargetPercentages == {0, 24, 76}

AssetKeyOf(symbol) ==
  CASE Upper(symbol) = "CASH" -> <<"Cash", "Cash">>
    [] Upper(symbol) = "VTI" -> <<"Stock", "US">>
    [] OTHER -> <<"Stock", "World">>

HoldingRow(account, symbol, value) ==
  [account_id |-> account, symbol |-> symbol, isin |-> "",
   asset_type |-> AssetKeyOf(symbol)[1], asset_category |-> AssetKeyOf(symbol)[2],
   price |-> 1, value_usd |-> value, statement_date |-> 1]

\* Rows an upload stores: quantity > 0 and price > 0, so value_usd > 0.
HoldingRows ==
  {HoldingRow(1, "VTI", 1), HoldingRow(1, "VTI", 3), HoldingRow(2, "VTI", 1)}
  \cup {HoldingRow(a, "VXUS", 1) : a \in Accounts}
  \cup {HoldingRow(1, "Cash", 1)}

\* The parts of the state a specification of another subsystem leaves alone.
RebalancingIdle ==
  /\ request = [tolerance100 |-> 1, account_id |-> 0]
  /\ plan = <<>>

MatcherIdle ==
  /\ matchIn = [holdings |-> <<>>, targets |-> <<>>]
  /\ matchOut = <<>>

TargetsIdle ==
  targetsLog = [op |-> "none", status |-> 0, body |-> <<>>,
                before |-> [targets |-> <<>>, history |-> <<>>, seq |-> 0]]

\* An upload request that has not arrived yet.
NewUpload ==
  [pc |-> "new", account_id |-> 0, statementDate |-> 0,
   parsed |-> [holdings |-> <<>>, cash |-> 0], status |-> 0, rate |-> 1,
   previous |-> <<>>]

UploadIdle ==
  /\ portfolio_snapshots = <<>>
  /\ uploads = [u \in 1..MaxUploads |-> NewUpload]
  /\ finished = <<>>

\* The parser before its first iteration, with nothing to parse.
ParserStart ==
  [pc |-> "loop", outcome |-> "none", rowStart |-> 0, iterations |-> 0,
   statementDate |-> "today"]

NoText == [layout |-> "none", rows |-> <<>>, lines |-> <<>>]

ParserIdle ==
  /\ text = NoText
  /\ cursor = 0
  /\ parsedHoldings = <<>>
  /\ parserLog = ParserStart
  /\ parses = <<>>

\* No request that looks names up.
LookupIdle ==
  /\ lookupRequest = [flow |-> "none", targets |-> <<>>, faulty |-> 0, fault |-> "none"]
  /\ lookups = <<>>
  /\ lookupPc = [pc |-> "new", i |-> 0, status |-> 0]

\* No target file uploaded.
ImportIdle ==
  /\ targetFile = [kind |-> "none", rows |-> <<>>]
  /\ preview = <<>>

\* UNIQUE(account_id, symbol, statement_date)
HoldingsUnique(rows) ==
  \A j, k \in DOMAIN rows :
    (/\ rows[j].account_id = rows[k].account_id
     /\ rows[j].symbol = rows[k].symbol
     /\ rows[j].statement_date = rows[k].statement_date) => j = k

HoldingTables == {rows \in SeqsUpTo(HoldingRows, MaxHoldings) : HoldingsUnique(rows)}

TickerShape ==
  [asset_type |-> "Stock", asset_category |-> "US", symbol |-> "VTI",
   alternative_tickers |-> <<>>, isin |-> ""]

AltTickerShape ==
  [asset_type |-> "Stock", asset_category |-> "US", symbol |-> "vti",
   alternative_tickers |-> <<"VXUS">>, isin |-> ""]

CategoryShape ==
  [asset_type |-> "Stock", asset_category |-> "World", symbol |-> "",
   alternative_tickers |-> <<>>, isin |-> ""]

\* The targets a table is drawn from: a ticker-level and a category-level
\* target at every percentage, and one with an alternative ticker.
TargetChoices ==
  ({TickerShape, CategoryShape} \X TargetPercentages) \cup {<<AltTickerShape, 76>>}

TargetRow(shape, pct, id) ==
  [id |-> id, asset_type |-> shape.asset_type, asset_category |-> shape.asset_category,
   symbol |-> shape.symbol, alternative_tickers |-> shape.alternative_tickers,
   isin |-> shape.isin, target_percentage |-> pct]

TargetTables ==
  {[k \in DOMAIN sh |-> TargetRow(sh[k][1], sh[k][2], k)] :
     sh \in SeqsUpTo(TargetChoices, MaxTargets)}

\* No mapping, or account 1 mapping VXUS to the first target.
MappingTables(targets) ==
  {<<>>} \cup {<<[account_id |-> 1, holding_symbol |-> "VXUS", target_id |-> targets[k].id]>> :
                 k \in DOMAIN targets \cap {1}}

\* INSERT INTO target_history: the row appended for a target.
InsertHistory(history, target) ==
  Append(history,
         [id |-> Len(history) + 1, target_allocation_id |-> target.id,
          target_percentage |-> target.target_percentage,
          asset_type |-> target.asset_type, asset_category |-> target.asset_category])

\* The history log of a table of targets each created by one POST.
RECURSIVE CreationHistory(_, _)
CreationHistory(targets, k) ==
  IF k = 0 THEN <<>> ELSE InsertHistory(CreationHistory(targets, k - 1), targets[k])

InitRebalancing ==
  /\ holdings \in HoldingTables
  /\ target_allocations \in TargetTables
  /\ symbol_mappings \in MappingTables(target_allocations)
  /\ target_history = CreationHistory(target_allocations, Len(target_allocations))
  /\ seq_target = Len(target_allocations)
  /\ RebalancingIdle
  /\ MatcherIdle
  /\ TargetsIdle
  /\ UploadIdle
  /\ ParserIdle
  /\ LookupIdle
  /\ ImportIdle

NextRebalancing ==
  \E tolerance100 \in Tolerances100, account_id \in {0, 1} :
    GetRebalancing(tolerance100, account_id)

SpecRebalancing == InitRebalancing /\ [][NextRebalancing]_vars

-----------------------------------------------------------------------------
(* Properties of the rebalancing plan *)

RECURSIVE SumAmounts(_, _, _)
SumAmounts(actions, kind, k) ==
  IF k > Len(actions) THEN 0
  ELSE (IF actions[k].action = kind THEN actions[k].amount ELSE 0)
       + SumAmounts(actions, kind, k + 1)

\* The entries of tickerAllocations of the answered request.
RequestHoldings == LatestHoldings(holdings, request.account_id)
RequestMappings == SymbolMappingsMap(symbol_mappings, target_allocations, request.account_id)
RequestEntries == TickerAllocations(RequestHoldings, 1, RequestMappings, <<>>)

\* Whether the position reported under `symbol` has any target.
HasAnyTargetFor(symbol) ==
  \E k \in DOMAIN RequestEntries :
    /\ RequestEntries[k].holding.symbol = symbol
    /\ ResolveTarget(RequestEntries[k], TickerTargetMap(target_allocations),
                     CategoryTargetMap(target_allocations))[2]

AtToleranceBoundary(a, p) ==
  100 * Abs(a.deviation) = request.tolerance100 * p.totalValue

WithoutCash(rows) == SelectSeq(rows, LAMBDA h : Upper(h.symbol) # "CASH")

\* C2: no CASH holding shows in allAssets or actions, and the plan gives every
\* asset the currentAllocation and deviation it has in the plan of the same
\* request over the holdings without their CASH rows.
C2_CashExcluded ==
  plan # <<>> =>
    LET p == plan[1]
        q == RebalancingRoute(WithoutCash(holdings), target_allocations, symbol_mappings,
                              request.tolerance100, request.account_id)
    IN /\ \A k \in DOMAIN p.allAssets : Upper(p.allAssets[k].symbol) # "CASH"
       /\ \A k \in DOMAIN p.actions : Upper(p.actions[k].symbol) # "CASH"
       /\ \A k \in DOMAIN p.allAssets :
            \E j \in DOMAIN q.allAssets :
              /\ q.allAssets[j].symbol = p.allAssets[k].symbol
              /\ p.allAssets[k].currentAllocation * q.totalValue
                   = q.allAssets[j].currentAllocation * p.totalValue
              /\ p.allAssets[k].deviation * q.totalValue
                   = q.allAssets[j].deviation * p.totalValue

\* C3 as claimed: every position whose |deviation| equals the tolerance is
\* balanced and has no action.
C3_BoundaryAlwaysBalanced ==
  plan # <<>> =>
    LET p == plan[1] IN
      \A k \in DOMAIN p.allAssets :
        AtToleranceBoundary(p.allAssets[k], p) =>
          /\ p.allAssets[k].status = "balanced"
          /\ \A j \in DOMAIN p.actions : p.actions[j].symbol # p.allAssets[k].symbol

\* C3 amended: a position that has a target (ticker- or category-level) and
\* whose |deviation| equals the tolerance is balanced and has no action.
C3_BoundaryBalancedWithTarget ==
  plan # <<>> =>
    LET p == plan[1] IN
      \A k \in DOMAIN p.allAssets :
        (AtToleranceBoundary(p.allAssets[k], p) /\ HasAnyTargetFor(p.allAssets[k].symbol)) =>
          /\ p.allAssets[k].status = "balanced"
          /\ \A j \in DOMAIN p.actions : p.actions[j].symbol # p.allAssets[k].symbol

\* A position with a target, off its target by exactly the tolerance.
C3_Witness ==
  /\ plan # <<>>
  /\ \E k \in DOMAIN plan[1].allAssets :
       /\ AtToleranceBoundary(plan[1].allAssets[k], plan[1])
       /\ plan[1].allAssets[k].deviation # 0
       /\ HasAnyTargetFor(plan[1].allAssets[k].symbol)
       /\ plan[1].allAssets[k].status = "balanced"

\* The plan was computed by calculateRebalancing (the route answers an empty
\* plan without calling it when there is no target).
Calculated == plan # <<>> /\ Len(target_allocations) > 0

\* The entry of allAssets reported under a symbol.
AssetOf(symbol) ==
  plan[1].allAssets[CHOOSE k \in DOMAIN plan[1].allAssets :
                      plan[1].allAssets[k].symbol = symbol]

ActionsOf(symbol) ==
  {j \in DOMAIN plan[1].actions : plan[1].actions[j].symbol = symbol}

\* The effective symbol of a position and the symbol of its holding.
EffectiveSymbol(entry) == entry.key
OriginalSymbol(entry) == Upper(entry.holding.symbol)

\* Ticker-level targets that name a symbol (as primary or alternative ticker),
\* and category-level targets of a holding's asset_type|asset_category.
TickerTargetsOf(symbol) ==
  {k \in DOMAIN target_allocations :
     /\ target_allocations[k].symbol # ""
     /\ \/ Upper(target_allocations[k].symbol) = symbol
        \/ \E a \in DOMAIN target_allocations[k].alternative_tickers :
             /\ target_allocations[k].alternative_tickers[a] # ""
             /\ Upper(target_allocations[k].alternative_tickers[a]) = symbol}

CategoryTargetsOf(holding) ==
  {k \in DOMAIN target_allocations :
     /\ target_allocations[k].symbol = ""
     /\ target_allocations[k].asset_type = holding.asset_type
     /\ target_allocations[k].asset_category = holding.asset_category}

NoTargetAtAll(entry) ==
  /\ TickerTargetsOf(EffectiveSymbol(entry)) = {}
  /\ TickerTargetsOf(OriginalSymbol(entry)) = {}
  /\ CategoryTargetsOf(entry.holding) = {}

\* The holdings of the request aggregated into a position.
HoldingsOf(entry) ==
  {k \in DOMAIN RequestHoldings :
     /\ Upper(RequestHoldings[k].symbol) # "CASH"
     /\ LET m == MappedSymbol(RequestMappings, Upper(RequestHoldings[k].symbol))
        IN (IF m # "" THEN m ELSE Upper(RequestHoldings[k].symbol)) = entry.key}

RECURSIVE SumOver(_, _)
SumOver(hs, ks) ==
  IF ks = {} THEN 0
  ELSE LET k == CHOOSE x \in ks : TRUE IN hs[k].value_usd + SumOver(hs, ks \ {k})

\* The current value of a position: the value_usd of its holdings, summed.
PositionValue(entry) == SumOver(RequestHoldings, HoldingsOf(entry))

\* C11: a position with current allocation > 0 and no target at all is
\* needs_sell and has a SELL action for the entire current value of the
\* position, quantity value/price, at every tolerance.
C11_ForcedFullExit ==
  Calculated =>
    \A k \in DOMAIN RequestEntries :
      LET e == RequestEntries[k] IN
        (PositionValue(e) > 0 /\ NoTargetAtAll(e)) =>
          /\ AssetOf(e.holding.symbol).status = "needs_sell"
          /\ \E j \in ActionsOf(e.holding.symbol) :
               /\ plan[1].actions[j].action = "SELL"
               /\ plan[1].actions[j].amount = 100 * PositionValue(e)
               /\ plan[1].actions[j].quantity
                    = <<100 * PositionValue(e), 100 * e.holding.price>>

\* The deviation of a position from the target the plan reports for it, as a
\* numerator over totalValue: 100 * value - targetAllocation * totalValue.
PositionDeviation(entry) ==
  100 * PositionValue(entry)
    - AssetOf(entry.holding.symbol).targetAllocation * plan[1].totalValue

ExceedsTolerance(deviation) ==
  100 * Abs(deviation) > request.tolerance100 * plan[1].totalValue

\* C12: a position that has a target and whose |deviation| exceeds the
\* tolerance gets a BUY when under target and a SELL when over target, of
\* amount |currentPct - targetPct| / 100 * totalValue, aggregated positions
\* included.
C12_TradeSizeAndDirection ==
  Calculated =>
    \A k \in DOMAIN RequestEntries :
      LET e == RequestEntries[k] IN
        (~NoTargetAtAll(e) /\ ExceedsTolerance(PositionDeviation(e))) =>
          \E j \in ActionsOf(e.holding.symbol) :
            /\ plan[1].actions[j].action
                 = (IF PositionDeviation(e) < 0 THEN "BUY" ELSE "SELL")
            /\ plan[1].actions[j].amount = Abs(PositionDeviation(e))

\* C16: a position has an action iff its status in allAssets is needs_buy or
\* needs_sell, and then exactly one.
C16_ActionsAreNonBalanced ==
  Calculated =>
    \A k \in DOMAIN plan[1].allAssets :
      LET a == plan[1].allAssets[k] IN
        /\ a.status \in {"needs_buy", "needs_sell"} =>
             Cardinality(ActionsOf(a.symbol)) = 1
        /\ a.status = "balanced" => ActionsOf(a.symbol) = {}

PercentagesOf(ks) == {target_allocations[k].target_percentage : k \in ks}

\* The targets that apply to a position at the first level of the precedence
\* that has any: ticker-level by effective symbol, ticker-level by original
\* symbol, category-level by asset_type|asset_category.
ApplicableTargets(entry) ==
  IF TickerTargetsOf(EffectiveSymbol(entry)) # {}
    THEN TickerTargetsOf(EffectiveSymbol(entry))
  ELSE IF TickerTargetsOf(OriginalSymbol(entry)) # {}
    THEN TickerTargetsOf(OriginalSymbol(entry))
  ELSE CategoryTargetsOf(entry.holding)

\* C17: the target percentage of a position is that of a ticker-level target
\* of its effective symbol if there is one, else of a ticker-level target of
\* its original symbol, else of a category-level target of its
\* asset_type|asset_category, else 0 without any target (the position is then
\* sold in full); an alternative ticker counts as its target's symbol.
C17_TargetPrecedence ==
  Calculated =>
    \A k \in DOMAIN RequestEntries :
      LET e == RequestEntries[k]
          a == AssetOf(e.holding.symbol)
      IN /\ ApplicableTargets(e) # {} =>
              /\ a.targetAllocation \in PercentagesOf(ApplicableTargets(e))
              /\ a.targetAllocation = 0 => ActionsOf(a.symbol) = {}
         /\ ApplicableTargets(e) = {} =>
              /\ a.targetAllocation = 0
              /\ \E j \in ActionsOf(a.symbol) :
                   /\ plan[1].actions[j].action = "SELL"
                   /\ plan[1].actions[j].deviation = a.currentAllocation

\* A position held under an alternative ticker whose category also has a
\* target, of another percentage.
C17_Witness ==
  /\ Calculated
  /\ \E k \in DOMAIN RequestEntries :
       LET e == RequestEntries[k] IN
         /\ \E t \in TickerTargetsOf(EffectiveSymbol(e)) :
              Upper(target_allocations[t].symbol) # EffectiveSymbol(e)
         /\ CategoryTargetsOf(e.holding) # {}
         /\ PercentagesOf(CategoryTargetsOf(e.holding))
              \cap PercentagesOf(TickerTargetsOf(EffectiveSymbol(e))) = {}
         /\ AssetOf(e.holding.symbol).targetAllocation
              \in PercentagesOf(TickerTargetsOf(EffectiveSymbol(e)))

\* C23: with tolerance t (0.01 standing for 1 percentage point) a position
\* that has a target is balanced exactly when its current and its target
\* allocation differ by at most 100 * t percentage points.  tolerance100 is
\* 100 * t, and the allocations are numerators over totalValue.
C23_ToleranceIsFraction ==
  Calculated =>
    \A k \in DOMAIN plan[1].allAssets :
      LET a == plan[1].allAssets[k] IN
        HasAnyTargetFor(a.symbol) =>
          (a.status = "balanced"
             <=> Abs(a.currentAllocation - a.targetAllocation * plan[1].totalValue)
                   <= request.tolerance100 * plan[1].totalValue)

\* C26: in every entry of allAssets currentValue is the summed value_usd of
\* the holdings aggregated into the position, so that currentValue is
\* currentAllocation / 100 * totalValue and adjustmentNeeded is
\* -deviation / 100 * totalValue.
C26_ValuesAgreeWithPercentages ==
  Calculated =>
    \A k \in DOMAIN RequestEntries :
      LET e == RequestEntries[k]
          a == AssetOf(e.holding.symbol)
      IN /\ a.currentValue = PositionValue(e)
         /\ 100 * a.currentValue = a.currentAllocation
         /\ a.adjustmentNeeded = -a.deviation

\* The effective symbol of a holding under the mappings of its own account.
OwnEffectiveSymbol(holding) ==
  LET own == SymbolMappingsMap(symbol_mappings, target_allocations, holding.account_id)
      m == MappedSymbol(own, Upper(holding.symbol))
  IN IF m # "" THEN m ELSE Upper(holding.symbol)

\* C30: in a request over all accounts every holding is aggregated under the
\* effective symbol that the mappings of its own account give it: a mapping
\* of another account changes neither its effective symbol nor its position.
C30_MappingsPerAccount ==
  (Calculated /\ request.account_id = 0) =>
    \A k \in DOMAIN RequestEntries :
      \A h \in HoldingsOf(RequestEntries[k]) :
        RequestEntries[k].key = OwnEffectiveSymbol(RequestHoldings[h])

-----------------------------------------------------------------------------
(* matchHoldingsToTargets *)

\* The keys one target sets in targetsBySymbol: its primary symbol, if any,
\* and every non-empty alternative ticker, upper-cased.
MatcherSymbolKeys(t) ==
  (IF t.symbol # "" THEN {Upper(t.symbol)} ELSE {})
  \cup {Upper(a) : a \in {b \in Range(t.alternative_tickers) : b # ""}}

\* The index of the target a Map holds under a key after the loop over the
\* targets: the last target that set the key.
LastSetter(targets, setters) ==
  CHOOSE k \in setters : \A j \in setters : j <= k

\* targetsBySymbol.get(key): <<>> (undefined) or <<index of the target>>.
TargetBySymbol(targets, key) ==
  LET setters == {k \in DOMAIN targets : key \in MatcherSymbolKeys(targets[k])}
  IN IF setters = {} THEN <<>> ELSE <<LastSetter(targets, setters)>>

\* targetsByIsin.get(key)
TargetByIsin(targets, key) ==
  LET setters == {k \in DOMAIN targets :
                    targets[k].isin # "" /\ Upper(targets[k].isin) = key}
  IN IF setters = {} THEN <<>> ELSE <<LastSetter(targets, setters)>>

\* targetsByCategory.get(key): the indices of the category-level targets (no
\* symbol, no alternative tickers) with that key, in input order.
TargetsByCategory(targets, key) ==
  {k \in DOMAIN targets :
     /\ targets[k].symbol = ""
     /\ Len(targets[k].alternative_tickers) = 0
     /\ CategoryKey(targets[k]) = key}

\* The match of one holding: <<matchType, index of the target>> or <<"none", 0>>.
MatchOneMutant(holding, targets) ==
  LET bySymbol == IF holding.symbol # ""
                    THEN TargetBySymbol(targets, Upper(holding.symbol)) ELSE <<>>
      byCategory == TargetsByCategory(targets, CategoryKey(holding))
  IN IF byCategory # {}
       THEN <<"category", CHOOSE k \in byCategory : \A j \in byCategory : k <= j>>
     ELSE IF bySymbol # <<>> THEN <<"exact_symbol", bySymbol[1]>>
     ELSE <<"none", 0>>

MatchOne(holding, targets) ==
  LET bySymbol == IF holding.symbol # ""
                    THEN TargetBySymbol(targets, Upper(holding.symbol)) ELSE <<>>
      byIsin == IF holding.isin # ""
                  THEN TargetByIsin(targets, Upper(holding.isin)) ELSE <<>>
      byCategory == TargetsByCategory(targets, CategoryKey(holding))
  IN IF bySymbol # <<>> THEN <<"exact_symbol", bySymbol[1]>>
     ELSE IF byIsin # <<>> THEN <<"exact_isin", byIsin[1]>>
     ELSE IF byCategory # {}
       THEN <<"category", CHOOSE k \in byCategory : \A j \in byCategory : k <= j>>
     ELSE <<"none", 0>>

\* The score with a partial symbol match counted like an exact one.
SuggestionScoreMutant(holding, target) ==
  (IF holding.symbol # "" /\ target.symbol # ""
      /\ (\/ Includes(Upper(holding.symbol), Upper(target.symbol))
          \/ Includes(Upper(target.symbol), Upper(holding.symbol)))
     THEN 100 ELSE 0)
  + (IF holding.isin # "" /\ target.isin # "" /\ Upper(holding.isin) = Upper(target.isin)
       THEN 100 ELSE 0)
  + (IF /\ holding.asset_category # "" /\ target.asset_category # ""
        /\ Lower(holding.asset_category) = Lower(target.asset_category)
       THEN 30 ELSE 0)

\* The score and reason findSuggestedMatches gives one target for a holding.
SuggestionScore(holding, target) ==
  LET symbolScore ==
        IF holding.symbol # "" /\ target.symbol # ""
          THEN IF Upper(holding.symbol) = Upper(target.symbol) THEN 100
               ELSE IF \/ Includes(Upper(holding.symbol), Upper(target.symbol))
                       \/ Includes(Upper(target.symbol), Upper(holding.symbol)) THEN 50
               ELSE 0
          ELSE 0
      isinScore ==
        IF holding.isin # "" /\ target.isin # "" /\ Upper(holding.isin) = Upper(target.isin)
          THEN 100 ELSE 0
      categoryScore ==
        IF /\ holding.asset_category # "" /\ target.asset_category # ""
           /\ Lower(holding.asset_category) = Lower(target.asset_category)
          THEN 30 ELSE 0
  IN symbolScore + isinScore + categoryScore

\* findSuggestedMatches: the targets with a positive score, sorted by score
\* descending (stable), the first five.
FindSuggestedMatches(holding, targets) ==
  LET scored == SelectSeq([k \in DOMAIN targets |->
                             [target |-> targets[k],
                              matchScore |-> SuggestionScore(holding, targets[k])]],
                          LAMBDA x : x.matchScore > 0)
      before(j, i) == \/ scored[j].matchScore > scored[i].matchScore
                      \/ scored[j].matchScore = scored[i].matchScore /\ j < i
      sorted == StableSort(scored, {ji \in (DOMAIN scored) \X (DOMAIN scored) :
                                      before(ji[1], ji[2])})
  IN SubSeq(sorted, 1, IF Len(sorted) < 5 THEN Len(sorted) ELSE 5)

\* inferAssetType: substring rules on the upper-cased symbol and the
\* lower-cased category, in the order of the code.
InferAssetType(holding) ==
  LET symbol == Upper(holding.symbol)
      category == Lower(holding.asset_category)
      sym(subs) == \E x \in subs : Includes(symbol, x)
      cat(subs) == \E x \in subs : Includes(category, x)
  IN IF sym({"BTC", "ETH"}) \/ symbol \in {"COIN", "GBTC"} THEN "Crypto"
     ELSE IF sym({"BND", "TIP", "AGG"}) \/ cat({"bond"}) THEN "Bond"
     ELSE IF sym({"REIT", "VNQ", "REET"}) \/ cat({"reit", "real estate"}) THEN "REIT"
     ELSE IF sym({"GLD", "SLV", "USAG"}) \/ cat({"commodity", "gold", "silver"}) THEN "Commodity"
     ELSE IF cat({"cash", "money market"}) \/ sym({"SGOV", "CSH"}) THEN "Cash"
     ELSE "Stock"

\* What the loop over the holdings pushes for one holding: a matched entry
\* (the holding re-tagged with the target's type and category) or an
\* unmatched entry.
MatchedEntry(holding, target, matchType) ==
  [matched |-> TRUE, holding |-> holding,
   asset_type |-> target.asset_type,
   asset_category |-> IF target.asset_category # "" THEN target.asset_category
                      ELSE holding.asset_category,
   matchedTargetId |-> target.id, matchType |-> matchType,
   suggestedMatches |-> <<>>, suggestedAssetType |-> ""]

UnmatchedEntry(holding, targets) ==
  [matched |-> FALSE, holding |-> holding,
   asset_type |-> holding.asset_type, asset_category |-> holding.asset_category,
   matchedTargetId |-> 0, matchType |-> "none",
   suggestedMatches |-> FindSuggestedMatches(holding, targets),
   suggestedAssetType |-> InferAssetType(holding)]

EntryOfMatch(holding, targets, mt) ==
  IF mt[1] # "none" THEN MatchedEntry(holding, targets[mt[2]], mt[1])
  ELSE UnmatchedEntry(holding, targets)

MatchEntry(holding, targets) == EntryOfMatch(holding, targets, MatchOne(holding, targets))

matchHoldingsToTargets(hs, targets) ==
  LET entries == [k \in DOMAIN hs |-> MatchEntry(hs[k], targets)]
  IN [matched |-> SelectSeq(entries, LAMBDA e : e.matched),
      unmatched |-> SelectSeq(entries, LAMBDA e : ~e.matched)]

\* One call per behaviour: the function keeps no state between calls.
Match(hs, targets) ==
  /\ matchOut = <<>>
  /\ matchIn' = [holdings |-> hs, targets |-> targets]
  /\ matchOut' = <<matchHoldingsToTargets(hs, targets)>>
  /\ UNCHANGED <<dbVars, rebVars, targetsVars, uploadVars, parserVars, lookupVars, importVars>>

-----------------------------------------------------------------------------
(* The inputs of the matcher specification *)

MatcherHoldings ==
  {[account_id |-> 1, symbol |-> sy, isin |-> i,
    asset_type |-> k[1], asset_category |-> k[2],
    price |-> 1, value_usd |-> 1, statement_date |-> 1] :
     sy \in {"vti", "VXUS", "BND"}, i \in {"", "us1"},
     k \in {<<"Stock", "World">>, <<"Unknown", "">>}}

IsinShape ==
  [asset_type |-> "Bond", asset_category |-> "", symbol |-> "AGG",
   alternative_tickers |-> <<>>, isin |-> "US1"]

AltOnlyShape ==
  [asset_type |-> "Stock", asset_category |-> "World", symbol |-> "",
   alternative_tickers |-> <<"VXUS">>, isin |-> ""]

CategoryIsinShape ==
  [asset_type |-> "Stock", asset_category |-> "World", symbol |-> "",
   alternative_tickers |-> <<>>, isin |-> "US1"]

MatcherTargetChoices ==
  {<<TickerShape, 24>>, <<IsinShape, 24>>, <<AltOnlyShape, 24>>,
   <<CategoryShape, 24>>, <<CategoryShape, 76>>, <<CategoryIsinShape, 24>>}

MatcherTargetLists ==
  {[k \in DOMAIN sh |-> TargetRow(sh[k][1], sh[k][2], k)] :
     sh \in SeqsUpTo(MatcherTargetChoices, MaxTargets)}

\* The database after initDatabase: every table empty.
EmptyDatabase ==
  /\ holdings = <<>>
  /\ target_allocations = <<>>
  /\ symbol_mappings = <<>>
  /\ target_history = <<>>
  /\ seq_target = 0

InitMatcher ==
  /\ EmptyDatabase
  /\ RebalancingIdle
  /\ TargetsIdle
  /\ UploadIdle
  /\ ParserIdle
  /\ LookupIdle
  /\ ImportIdle
  /\ matchIn \in [holdings : SeqsUpTo(MatcherHoldings, MaxHoldings),
                  targets : MatcherTargetLists]
  /\ matchOut = <<>>

NextMatcher == Match(matchIn.holdings, matchIn.targets)

SpecMatcher == InitMatcher /\ [][NextMatcher]_vars

\* The targets one of whose symbols (primary or alternative) is the holding's.
SymbolTargets(holding, targets) ==
  {k \in DOMAIN targets : holding.symbol # "" /\ Upper(holding.symbol) \in MatcherSymbolKeys(targets[k])}

IsinTargets(holding, targets) ==
  {k \in DOMAIN targets :
     holding.isin # "" /\ targets[k].isin # "" /\ Upper(holding.isin) = Upper(targets[k].isin)}

CategoryTargets(holding, targets) == TargetsByCategory(targets, CategoryKey(holding))

\* The entry of the result for the holding at index k of the input: matched
\* and unmatched keep the input order.
ResultEntries == [k \in DOMAIN matchIn.holdings |-> MatchEntry(matchIn.holdings[k], matchIn.targets)]

\* C4: a holding with a symbol-matching target is matched 'exact_symbol' to a
\* symbol-matching target, whatever ISIN or category targets also match; an
\* ISIN match is reported only without symbol match, a category match only
\* with neither, and a holding with none of the three is unmatched.
C4_MatchPriority ==
  matchOut # <<>> =>
    LET out == matchOut[1]
        hs == matchIn.holdings
        ts == matchIn.targets
        idsOf(S) == {ts[k].id : k \in S}
    IN /\ Len(out.matched) + Len(out.unmatched) = Len(hs)
       /\ \A m \in Range(out.matched) :
            LET h == m.holding IN
              /\ h \in Range(hs)
              /\ SymbolTargets(h, ts) # {} =>
                   m.matchType = "exact_symbol" /\ m.matchedTargetId \in idsOf(SymbolTargets(h, ts))
              /\ (SymbolTargets(h, ts) = {} /\ IsinTargets(h, ts) # {}) =>
                   m.matchType = "exact_isin" /\ m.matchedTargetId \in idsOf(IsinTargets(h, ts))
              /\ (SymbolTargets(h, ts) = {} /\ IsinTargets(h, ts) = {}) =>
                   /\ m.matchType = "category"
                   /\ m.matchedTargetId \in idsOf(CategoryTargets(h, ts))
       /\ \A u \in Range(out.unmatched) :
            /\ u.holding \in Range(hs)
            /\ SymbolTargets(u.holding, ts) = {}
            /\ IsinTargets(u.holding, ts) = {}
            /\ CategoryTargets(u.holding, ts) = {}

\* A holding with a symbol target, an ISIN target and a category target, all
\* different, matched by symbol.
C4_Witness ==
  /\ matchOut # <<>>
  /\ \E m \in Range(matchOut[1].matched) :
       /\ m.matchType = "exact_symbol"
       /\ IsinTargets(m.holding, matchIn.targets) # {}
       /\ CategoryTargets(m.holding, matchIn.targets) # {}
       /\ IsinTargets(m.holding, matchIn.targets) \cap SymbolTargets(m.holding, matchIn.targets) = {}

\* The inputs of the suggestions: holdings whose symbol contains a target's
\* symbol, with and without the category of a target, a holding that matches
\* a target by ISIN, and targets with a partial symbol, with an ISIN, without
\* symbol, and of the holdings' category under another asset type.
SuggestHoldings ==
  {[account_id |-> 1, symbol |-> sy, isin |-> i,
    asset_type |-> "Stock", asset_category |-> c,
    price |-> 1, value_usd |-> 1, statement_date |-> 1] :
     sy \in {"VXUS", "BND"}, i \in {"", "us1"}, c \in {"World", ""}}

PartialShape ==
  [asset_type |-> "ETF", asset_category |-> "world", symbol |-> "VX",
   alternative_tickers |-> <<>>, isin |-> ""]

OtherTypeShape ==
  [asset_type |-> "ETF", asset_category |-> "World", symbol |-> "",
   alternative_tickers |-> <<>>, isin |-> ""]

SuggestTargetChoices ==
  {<<PartialShape, 24>>, <<IsinShape, 24>>, <<CategoryShape, 24>>, <<AltOnlyShape, 24>>,
   <<OtherTypeShape, 24>>}

SuggestTargetLists ==
  {[k \in DOMAIN sh |-> TargetRow(sh[k][1], sh[k][2], k)] :
     sh \in SeqsUpTo(SuggestTargetChoices, MaxTargets)}

InitSuggest ==
  /\ EmptyDatabase
  /\ RebalancingIdle
  /\ TargetsIdle
  /\ UploadIdle
  /\ ParserIdle
  /\ LookupIdle
  /\ ImportIdle
  /\ matchIn \in [holdings : SeqsUpTo(SuggestHoldings, MaxHoldings),
                  targets : SuggestTargetLists]
  /\ matchOut = <<>>

SpecSuggest == InitSuggest /\ [][NextMatcher]_vars

\* C28: every suggestion of an unmatched holding has matchScore 30, 50 or 80:
\* a holding with the symbol or the ISIN of a target is matched and gets no
\* suggestions.
C28_SuggestionScoresBounded ==
  matchOut # <<>> =>
    \A u \in Range(matchOut[1].unmatched) :
      \A sg \in Range(u.suggestedMatches) : sg.matchScore \in {30, 50, 80}

\* Unmatched holdings with suggestions of score 30, 50 and 80.
C28_Witness ==
  /\ matchOut # <<>>
  /\ \A score \in {30, 50, 80} :
       \E u \in Range(matchOut[1].unmatched) :
         \E sg \in Range(u.suggestedMatches) : sg.matchScore = score

\* C27: for a position without ticker-level target whose holding the matcher
\* matches by category, the target percentage of the rebalancing plan is the
\* target_percentage of the target the matcher reports (the first of the
\* category in input order).
C27_MatcherAndPlanAgree ==
  Calculated =>
    \A k \in DOMAIN RequestEntries :
      LET e == RequestEntries[k]
          m == MatchOne(e.holding, target_allocations)
      IN (/\ TickerTargetsOf(EffectiveSymbol(e)) = {}
          /\ TickerTargetsOf(OriginalSymbol(e)) = {}
          /\ m[1] = "category") =>
           AssetOf(e.holding.symbol).targetAllocation
             = target_allocations[m[2]].target_percentage

-----------------------------------------------------------------------------
(* The targets router: POST /, POST /commit-excel, GET /history *)

\* A target_percentage the request leaves null: the column is NOT NULL.
NullPercentage == -1

\* The row INSERT INTO target_allocations stores for a request target
\* <<shape, percentage>>; bucket is always NULL.
NewTargetRow(target, id) == TargetRow(target[1], target[2], id)

\* insertTarget.run throws: target_percentage REAL NOT NULL.  The UNIQUE
\* constraint includes bucket, which is NULL, and NULLs are distinct, so it
\* never fires.
InsertThrows(target) == target[2] = NullPercentage

\* The loop over the existing targets: one history row each.
RECURSIVE ArchiveExisting(_, _, _)
ArchiveExisting(history, existingTargets, k) ==
  IF k > Len(existingTargets) THEN history
  ELSE ArchiveExisting(InsertHistory(history, existingTargets[k]), existingTargets, k + 1)

\* The loop over targetList from index i: insert the target and its history
\* row; the first insert that throws ends the loop with ok = FALSE and the
\* database as the statements before it left it.
RECURSIVE InsertLoop(_, _, _)
InsertLoop(db, targetList, i) ==
  IF i > Len(targetList) THEN [ok |-> TRUE, db |-> db]
  ELSE IF InsertThrows(targetList[i]) THEN [ok |-> FALSE, db |-> db]
  ELSE LET row == NewTargetRow(targetList[i], db.seq + 1)
       IN InsertLoop([targets |-> Append(db.targets, row),
                      history |-> InsertHistory(db.history, row),
                      seq |-> db.seq + 1],
                     targetList, i + 1)

\* The function passed to db.transaction: archive, delete all, insert.
CommitBody(db, targetList) ==
  InsertLoop([targets |-> <<>>,
              history |-> ArchiveExisting(db.history, db.targets, 1),
              seq |-> db.seq],
             targetList, 1)

\* db.transaction: COMMIT when the function returns, ROLLBACK when it throws.
TransactionMutant(before, body) == body.db

Transaction(before, body) == IF body.ok THEN body.db ELSE before

TargetsDb == [targets |-> target_allocations, history |-> target_history, seq |-> seq_target]

\* POST /commit-excel.  The handler has no await: it runs to completion.
\* foreign_keys is OFF during the transaction and ON again at the end, so
\* the DELETE neither checks nor touches symbol_mappings.
CommitExcel(targets) ==
  /\ Len(target_history) <= MaxHistory
  /\ LET before == TargetsDb
         body == CommitBody(before, targets)
         after == Transaction(before, body)
     IN /\ target_allocations' = after.targets
        /\ target_history' = after.history
        /\ seq_target' = after.seq
        /\ targetsLog' = [op |-> "commit-excel", status |-> IF body.ok THEN 200 ELSE 500,
                          body |-> targets, before |-> before]
  /\ UNCHANGED <<holdings, symbol_mappings, rebVars, matchVars, uploadVars, parserVars, lookupVars, importVars>>

\* The existing row POST / looks up: same asset_type, category, symbol, isin
\* (NULL-safe), bucket NULL.
ExistingTarget(targets, shape) ==
  {k \in DOMAIN targets :
     /\ targets[k].asset_type = shape.asset_type
     /\ targets[k].asset_category = shape.asset_category
     /\ targets[k].symbol = shape.symbol
     /\ targets[k].isin = shape.isin}

\* POST /: update the existing target (history rows for the old and the new
\* value) or insert a new one (one history row).  A null percentage passes
\* the check for undefined and fails on NOT NULL: in the update branch after
\* the old value was written to the history (no transaction here).
PostTarget(target) ==
  /\ Len(target_history) <= MaxHistory
  /\ LET before == TargetsDb
         existing == ExistingTarget(target_allocations, target[1])
         k == CHOOSE x \in existing : TRUE
         archived == InsertHistory(target_history, target_allocations[k])
         updated == [target_allocations[k] EXCEPT
                       !.target_percentage = target[2],
                       !.alternative_tickers = target[1].alternative_tickers]
         row == NewTargetRow(target, seq_target + 1)
     IN /\ IF existing # {}
             THEN IF InsertThrows(target)
                    THEN /\ target_history' = archived
                         /\ UNCHANGED <<target_allocations, seq_target>>
                    ELSE /\ target_allocations' = [target_allocations EXCEPT ![k] = updated]
                         /\ target_history' = InsertHistory(archived, updated)
                         /\ UNCHANGED seq_target
             ELSE IF InsertThrows(target)
                    THEN UNCHANGED <<target_allocations, target_history, seq_target>>
                    ELSE /\ target_allocations' = Append(target_allocations, row)
                         /\ target_history' = InsertHistory(target_history, row)
                         /\ seq_target' = seq_target + 1
        /\ targetsLog' = [op |-> "post", status |-> IF InsertThrows(target) THEN 500 ELSE 200,
                          body |-> <<target>>, before |-> before]
  /\ UNCHANGED <<holdings, symbol_mappings, rebVars, matchVars, uploadVars, parserVars, lookupVars, importVars>>

\* GET /history: target_history JOIN target_allocations ON the target id.
GetHistory(history, targets) ==
  SelectSeq(history, LAMBDA th : \E k \in DOMAIN targets : targets[k].id = th.target_allocation_id)

\* GET /:id/history
GetTargetHistory(history, id) ==
  SelectSeq(history, LAMBDA th : th.target_allocation_id = id)

RequestTargets ==
  {<<TickerShape, 24>>, <<TickerShape, 76>>, <<CategoryShape, 24>>,
   <<CategoryShape, NullPercentage>>}

InitTargets ==
  /\ EmptyDatabase
  /\ RebalancingIdle
  /\ MatcherIdle
  /\ TargetsIdle
  /\ UploadIdle
  /\ ParserIdle
  /\ LookupIdle
  /\ ImportIdle

NextTargets ==
  \/ \E target \in RequestTargets : PostTarget(target)
  \/ \E targets \in SeqsUpTo(RequestTargets, MaxTargets) : CommitExcel(targets)

SpecTargets == InitTargets /\ [][NextTargets]_vars

\* The last request was a commit-excel that answered 200 / 500.
CommitSucceeded == targetsLog.op = "commit-excel" /\ targetsLog.status = 200
CommitFailed == targetsLog.op = "commit-excel" /\ targetsLog.status = 500

\* The current targets are exactly the committed list, in order.
CurrentIsNewSet ==
  /\ Len(target_allocations) = Len(targetsLog.body)
  /\ \A k \in DOMAIN target_allocations :
       target_allocations[k] = NewTargetRow(targetsLog.body[k], target_allocations[k].id)

\* A sequence of history rows holds the percentage of a target.
HoldsRowOf(rows, target) ==
  \E h \in Range(rows) :
    /\ h.target_allocation_id = target.id
    /\ h.target_percentage = target.target_percentage

\* C5: after a successful commit-excel, GET /history returns a row for every
\* target of the previous set and for every target of the new set, and the
\* current targets are exactly the new set.
C5_HistoryQueryKeepsPreviousSet ==
  CommitSucceeded =>
    /\ CurrentIsNewSet
    /\ \A t \in Range(target_allocations) :
         HoldsRowOf(GetHistory(target_history, target_allocations), t)
    /\ \A p \in Range(targetsLog.before.targets) :
         HoldsRowOf(GetHistory(target_history, target_allocations), p)

\* What does hold after a successful commit-excel: the current targets are
\* the new set, GET /history returns the rows of the new set, and the rows of
\* the previous set are in the table, returned by GET /:id/history only.
C5_PreviousSetOnlyById ==
  CommitSucceeded =>
    /\ CurrentIsNewSet
    /\ \A t \in Range(target_allocations) :
         HoldsRowOf(GetHistory(target_history, target_allocations), t)
    /\ \A p \in Range(targetsLog.before.targets) :
         /\ HoldsRowOf(GetTargetHistory(target_history, p.id), p)
         /\ ~HoldsRowOf(GetHistory(target_history, target_allocations), p)

\* C8: a commit-excel that fails leaves the targets, the history log and the
\* id sequence exactly as before; one that succeeds has written a history row
\* for every previous target, before the rows of the new targets, and the
\* current targets are the new set: never a partial one.
C8_CommitAtomicArchivesFirst ==
  /\ CommitFailed =>
       /\ target_allocations = targetsLog.before.targets
       /\ target_history = targetsLog.before.history
       /\ seq_target = targetsLog.before.seq
  /\ CommitSucceeded =>
       LET old == targetsLog.before.targets
           base == Len(targetsLog.before.history)
       IN /\ CurrentIsNewSet
          /\ Len(target_history) = base + Len(old) + Len(targetsLog.body)
          /\ SubSeq(target_history, 1, base) = targetsLog.before.history
          /\ \A k \in DOMAIN old :
               /\ target_history[base + k].target_allocation_id = old[k].id
               /\ target_history[base + k].target_percentage = old[k].target_percentage
          /\ \A k \in DOMAIN target_allocations :
               target_history[base + Len(old) + k].target_allocation_id = target_allocations[k].id

\* A commit that failed at its second target, after the archive, the delete
\* and one insert, over a non-empty previous set.
C8_Witness ==
  /\ CommitFailed
  /\ targetsLog.before.targets # <<>>
  /\ Len(targetsLog.body) = 2
  /\ ~InsertThrows(targetsLog.body[1])
  /\ InsertThrows(targetsLog.body[2])

\* A successful commit that replaced a non-empty set.
C8_WitnessSuccess ==
  /\ CommitSucceeded
  /\ targetsLog.before.targets # <<>>
  /\ targetsLog.body # <<>>

-----------------------------------------------------------------------------
(* POST /api/statements/upload *)

\* getCurrencyForSymbol: the statement's currency if it has one; otherwise the
\* pattern table, which gives USD for the 1-5 letter symbols of the model.
CurrencyOf(holding) == IF holding.currency # "" THEN holding.currency ELSE "USD"

\* The awaits of the handler wait for the network only in getExchangeRate,
\* for a currency other than USD (the account's base currency is USD); with
\* at most batchSize symbols and no online lookup, every other await resumes
\* in the same macrotask, before any other request is served.
NeedsExchangeRate(parsed) ==
  \E k \in DOMAIN parsed.holdings : CurrencyOf(parsed.holdings[k]) # "USD"

\* The rows of one account and statement date.
SlotRows(rows, account_id, statementDate) ==
  SelectSeq(rows, LAMBDA h : h.account_id = account_id /\ h.statement_date = statementDate)

\* DELETE FROM holdings WHERE account_id = ? AND statement_date = ?
DeleteSlot(rows, account_id, statementDate) ==
  SelectSeq(rows, LAMBDA h : ~(h.account_id = account_id /\ h.statement_date = statementDate))

\* The row insertStmt.run stores for a parsed holding.
InsertedRow(holding, account_id, statementDate, rate) ==
  [account_id |-> account_id, symbol |-> holding.symbol, isin |-> holding.isin,
   asset_type |-> "Unknown", asset_category |-> holding.assetCategory,
   price |-> holding.price,
   value_usd |-> IF CurrencyOf(holding) # "USD"
                   THEN holding.quantity * holding.price * rate
                   ELSE holding.quantity * holding.price,
   statement_date |-> statementDate]

\* The function passed to db.transaction (insertMany), from index k: the
\* first insert that violates UNIQUE(account_id, symbol, statement_date)
\* throws.
RECURSIVE InsertMany(_, _, _, _, _, _)
InsertMany(rows, list, k, account_id, statementDate, rate) ==
  IF k > Len(list) THEN [ok |-> TRUE, db |-> rows]
  ELSE LET row == InsertedRow(list[k], account_id, statementDate, rate)
       IN IF \E h \in Range(rows) : /\ h.account_id = row.account_id
                                     /\ h.symbol = row.symbol
                                     /\ h.statement_date = row.statement_date
            THEN [ok |-> FALSE, db |-> rows]
            ELSE InsertMany(Append(rows, row), list, k + 1,
                            account_id, statementDate, rate)

\* The CASH row, added when the statement has cash and the slot has no CASH
\* row yet.
CashRow(cash, account_id, statementDate) ==
  [account_id |-> account_id, symbol |-> "CASH", isin |-> "",
   asset_type |-> "Cash", asset_category |-> "Cash",
   price |-> cash, value_usd |-> cash, statement_date |-> statementDate]

AddCash(rows, cash, account_id, statementDate) ==
  IF /\ cash > 0
     /\ ~\E h \in Range(rows) : /\ h.account_id = account_id
                                /\ h.symbol = "CASH"
                                /\ h.statement_date = statementDate
    THEN Append(rows, CashRow(cash, account_id, statementDate))
    ELSE rows

\* The UPDATEs after matchHoldingsToTargets: a matched holding takes the type
\* and category of its target, an unmatched one the suggested asset type.
Retyped(h, e) ==
  IF e.matched
    THEN [h EXCEPT !.asset_type = e.asset_type, !.asset_category = e.asset_category]
    ELSE [h EXCEPT !.asset_type = e.suggestedAssetType]

\* UPDATE holdings ... WHERE account_id = ? AND symbol = ? AND statement_date = ?
ApplyMatch(rows, account_id, statementDate, entries) ==
  [k \in DOMAIN rows |->
     IF rows[k].account_id = account_id /\ rows[k].statement_date = statementDate
       THEN Retyped(rows[k], CHOOSE e \in entries : e.holding.symbol = rows[k].symbol)
       ELSE rows[k]]

MatchEntries(result) == Range(result.matched) \cup Range(result.unmatched)

UpdateAssetTypes(rows, targets, account_id, statementDate) ==
  ApplyMatch(rows, account_id, statementDate,
             MatchEntries(matchHoldingsToTargets(SlotRows(rows, account_id, statementDate),
                                                 targets)))

\* The snapshot of the statement date, created once per date from the latest
\* holdings of every account: total value and value per type and category.
SnapshotAllocation(latest, key) ==
  [asset_type |-> key[1], asset_category |-> key[2],
   value_usd |-> RouteTotalValue(SelectSeq(latest,
                   LAMBDA h : <<h.asset_type, h.asset_category>> = key))]

SnapshotOf(latest, statementDate) ==
  [snapshot_date |-> statementDate,
   total_value_usd |-> RouteTotalValue(latest),
   allocations |-> {SnapshotAllocation(latest, key) :
                      key \in {<<h.asset_type, h.asset_category>> : h \in Range(latest)}}]

CreateSnapshot(snapshots, rows, statementDate) ==
  IF \E sn \in Range(snapshots) : sn.snapshot_date = statementDate THEN snapshots
  ELSE Append(snapshots, SnapshotOf(LatestHoldings(rows, 0), statementDate))

\* The handler from insertMany to the answer, in one piece (it has no await
\* after the exchange rates): 500 when insertMany throws, with its inserts
\* rolled back and nothing else done.
\* After insertMany returned: the CASH row, the asset types, the snapshot,
\* and the answer 200.
UploadStored(typed, snapshots, up) ==
  [status |-> 200, holdings |-> typed,
   snapshots |-> CreateSnapshot(snapshots, typed, up.statementDate)]

UploadAfterInsert(rows, snapshots, targets, up, body) ==
  IF body.ok
    THEN UploadStored(UpdateAssetTypes(AddCash(Transaction(rows, body), up.parsed.cash,
                                               up.account_id, up.statementDate),
                                       targets, up.account_id, up.statementDate),
                      snapshots, up)
    ELSE [status |-> 500, holdings |-> Transaction(rows, body), snapshots |-> snapshots]

UploadRest(rows, snapshots, targets, up, rate) ==
  UploadAfterInsert(rows, snapshots, targets, up,
                    InsertMany(rows, up.parsed.holdings, 1, up.account_id,
                               up.statementDate, rate))

UploadAnswer(u, up, rate, r) ==
  /\ holdings' = r.holdings
  /\ portfolio_snapshots' = r.snapshots
  /\ uploads' = [uploads EXCEPT ![u] = [up EXCEPT !.pc = "done", !.status = r.status,
                                                  !.rate = rate]]
  /\ finished' = IF r.status = 200 THEN Append(finished, u) ELSE finished

UploadComplete(u, up, rows, rate) ==
  UploadAnswer(u, up, rate,
               UploadRest(rows, portfolio_snapshots, target_allocations, up, rate))

\* A request arrives: parse, 400 for a statement without holdings, delete the
\* slot's rows, then wait for the exchange rates, or, when none is needed, go
\* on to the end.
UploadStart(u, account_id, statementDate, parsed) ==
  /\ uploads[u].pc = "new"
  /\ \A v \in 1..(u - 1) : uploads[v].pc # "new"
  /\ LET up == [NewUpload EXCEPT !.account_id = account_id, !.statementDate = statementDate,
                                 !.parsed = parsed,
                                 !.previous = SlotRows(holdings, account_id, statementDate)]
         deleted == DeleteSlot(holdings, account_id, statementDate)
     IN IF parsed.holdings = <<>>
          THEN /\ uploads' = [uploads EXCEPT ![u] = [up EXCEPT !.pc = "done", !.status = 400]]
               /\ UNCHANGED <<holdings, portfolio_snapshots, finished>>
        ELSE IF NeedsExchangeRate(parsed)
          THEN /\ holdings' = deleted
               /\ uploads' = [uploads EXCEPT ![u] = [up EXCEPT !.pc = "awaiting"]]
               /\ UNCHANGED <<portfolio_snapshots, finished>>
        ELSE UploadComplete(u, up, deleted, 1)
  /\ UNCHANGED <<target_allocations, target_history, symbol_mappings, seq_target,
                 rebVars, matchVars, targetsVars, parserVars, lookupVars, importVars>>

\* The exchange rates arrive (the fetched rate, or 1 when the fetch fails):
\* the handler runs to its end.
UploadResume(u, rate) ==
  /\ uploads[u].pc = "awaiting"
  /\ UploadComplete(u, uploads[u], holdings, rate)
  /\ UNCHANGED <<target_allocations, target_history, symbol_mappings, seq_target,
                 rebVars, matchVars, targetsVars, parserVars, lookupVars, importVars>>

-----------------------------------------------------------------------------
(* The inputs of the upload specification *)

ParsedHolding(symbol, price, currency) ==
  [symbol |-> symbol, isin |-> "", assetCategory |-> "", quantity |-> 1,
   price |-> price, currency |-> currency]

\* Parsed statements: one or two positions, with and without cash, in USD or
\* EUR, one listing a symbol twice, one without holdings.
Statements ==
  {[holdings |-> <<ParsedHolding("VTI", 1, "USD")>>, cash |-> 0],
   [holdings |-> <<ParsedHolding("VTI", 3, "")>>, cash |-> 5],
   [holdings |-> <<ParsedHolding("VTI", 1, "EUR")>>, cash |-> 0],
   [holdings |-> <<ParsedHolding("VXUS", 1, "EUR")>>, cash |-> 5],
   [holdings |-> <<ParsedHolding("VTI", 1, "USD"), ParsedHolding("VXUS", 1, "EUR")>>, cash |-> 0],
   [holdings |-> <<ParsedHolding("VTI", 1, "USD"), ParsedHolding("VTI", 3, "USD")>>, cash |-> 0],
   [holdings |-> <<>>, cash |-> 5]}

StatementDates == {1, 2}

ExchangeRates == {1, 2}

InitUpload ==
  /\ holdings = <<>>
  /\ symbol_mappings = <<>>
  /\ target_allocations \in {<<>>, <<TargetRow(TickerShape, 76, 1)>>}
  /\ target_history = CreationHistory(target_allocations, Len(target_allocations))
  /\ seq_target = Len(target_allocations)
  /\ RebalancingIdle
  /\ MatcherIdle
  /\ TargetsIdle
  /\ UploadIdle
  /\ ParserIdle
  /\ LookupIdle
  /\ ImportIdle

NextUpload ==
  \/ \E u \in 1..MaxUploads, account_id \in Accounts, statementDate \in StatementDates,
        parsed \in Statements :
       UploadStart(u, account_id, statementDate, parsed)
  \/ \E u \in 1..MaxUploads, rate \in ExchangeRates : UploadResume(u, rate)

SpecUpload == InitUpload /\ [][NextUpload]_vars

\* Symbol and USD value of the rows a successful upload stores: its holdings
\* and, with cash, the CASH row.
StoredBy(up) ==
  {[symbol |-> h.symbol, value_usd |-> h.value_usd] :
     h \in Range(AddCash(InsertMany(<<>>, up.parsed.holdings, 1, up.account_id,
                                    up.statementDate, up.rate).db,
                         up.parsed.cash, up.account_id, up.statementDate))}

\* Symbol and USD value of the rows now stored for an account and date.
StoredFor(account_id, statementDate) ==
  {[symbol |-> h.symbol, value_usd |-> h.value_usd] :
     h \in Range(SlotRows(holdings, account_id, statementDate))}

SameSlot(u, v) ==
  /\ uploads[u].account_id = uploads[v].account_id
  /\ uploads[u].statementDate = uploads[v].statementDate

\* Every upload that has arrived was answered 200.
OnlySuccessfulUploads ==
  \A u \in DOMAIN uploads :
    uploads[u].pc = "new" \/ (uploads[u].pc = "done" /\ uploads[u].status = 200)

\* The upload answered last among the successful ones for the slot of u.
LastFinished(u) ==
  LET ks == {k \in DOMAIN finished : SameSlot(finished[k], u)}
  IN finished[CHOOSE k \in ks : \A j \in ks : j <= k]

\* C6: after any sequence of successful uploads there is one row per
\* (account, symbol, statement_date), and the rows of an account and date are
\* exactly those of the most recent upload for that account and date.
C6_RowsAreLastUpload ==
  /\ HoldingsUnique(holdings)
  /\ OnlySuccessfulUploads =>
       \A u \in Range(finished) :
         StoredFor(uploads[u].account_id, uploads[u].statementDate)
           = StoredBy(uploads[LastFinished(u)])

\* u is the only upload at work on its slot: every other upload for the same
\* account and date arrived before u and has been answered.
AloneOnSlot(u) ==
  \A v \in DOMAIN uploads \ {u} :
    (uploads[v].pc # "new" /\ SameSlot(u, v)) => (v < u /\ uploads[v].pc = "done")

\* The complete set of rows of upload u is stored for its slot.
NewSetStored(u) ==
  LET up == uploads[u]
  IN /\ InsertMany(<<>>, up.parsed.holdings, 1, up.account_id, up.statementDate, 1).ok
     /\ \E rate \in ExchangeRates :
          StoredFor(up.account_id, up.statementDate) = StoredBy([up EXCEPT !.rate = rate])

\* The rows the slot held when upload u arrived are all still stored.
PreviousStored(u) ==
  LET up == uploads[u]
  IN {[symbol |-> h.symbol, value_usd |-> h.value_usd] : h \in Range(up.previous)}
       = StoredFor(up.account_id, up.statementDate)

\* C7: replacing the holdings of an account and date is all-or-nothing.  At
\* every moment the slot of an upload holds the previous rows or the complete
\* new set; after a failed upload (500) it holds the previous rows.
C7_ReplaceIsAtomic ==
  \A u \in DOMAIN uploads :
    (uploads[u].pc \in {"awaiting", "done"} /\ uploads[u].status # 400 /\ AloneOnSlot(u)) =>
      /\ PreviousStored(u) \/ NewSetStored(u)
      /\ uploads[u].status = 500 => PreviousStored(u)

-----------------------------------------------------------------------------
(* parseOpenPositions, vertical layout.  lines is the section from the first *)
(* data line on (lines.slice(dataStartIndex)); indices are 0-based as in the *)
(* code, so line i of the code is lines[i + 1] here.  The regular            *)
(* expressions are tabulated over the lines the model's sections are made of *)

numDataFields == 8
rowSize == numDataFields + 1
MinValues == 6

\* Lines that parseFloat (after removing commas and turning "(x)" into "-x")
\* reads as a number, and the number.
NumberLines == {"0", "1", "2", "3", "4", "5", "10", "30", "-3"}

ParseFloat(line) ==
  CASE line = "0" -> 0
    [] line = "1" -> 1
    [] line = "2" -> 2
    [] line = "3" -> 3
    [] line = "4" -> 4
    [] line = "5" -> 5
    [] line = "10" -> 10
    [] line = "30" -> 30
    [] line = "-3" -> -3

\* line.trim() === ''
BlankLine(line) == line = ""

\* /^(Total|Stocks|USD|EUR|GBP|JPY)$/i, without digit or comma
SectionWord(line) == line \in {"Total", "Stocks", "USD", "EUR"}

\* /^Total\s+(in|Stocks)/i and /^Total\s+/i
TotalOfLine(line) == line \in {"Total in USD"}

\* The condition of the inner while: lines the loop steps over.
IsFiller(lines, i) ==
  \/ BlankLine(lines[i + 1])
  \/ SectionWord(lines[i + 1])
  \/ TotalOfLine(lines[i + 1])
  \/ (lines[i + 1] = "Total" /\ i + 1 < Len(lines) /\ BlankLine(lines[i + 2]))

RECURSIVE SkipFiller(_, _)
SkipFiller(lines, i) ==
  IF i < Len(lines) /\ IsFiller(lines, i) THEN SkipFiller(lines, i + 1) ELSE i

\* "Clearly not a symbol line": starts with a digit or '-' (every number
\* line); no line of the model has a '.' or ',' or more than 20 characters.
NotSymbolLine(line) == line \in NumberLines

\* /^(Stocks|Total|USD|EUR|GBP|JPY|Code)$/i, /^Total\s+/i, or 'SY'
SectionHeader(line) == SectionWord(line) \/ TotalOfLine(line) \/ line \in {"Code", "SY"}

\* The symbol extracted from a symbol line after stripping a section prefix:
\* the longest suffix of 5..1 characters [A-Z0-9] holding a letter; "" when
\* there is none and the line is not 1-6 characters [A-Z0-9] either.
ExtractSymbol(line) ==
  CASE line \in {"VTI", "VXUS", "B28A"} -> line
    [] line = "USDACWD" -> "ACWD"
    [] line = "StocksEURIWDA" -> "IWDA"
    [] line = "EURN" -> "N"
    [] OTHER -> ""

\* The currency of the stripped prefix, "" for undefined.
ExtractCurrency(line) ==
  CASE line = "USDACWD" -> "USD"
    [] line = "StocksEURIWDA" -> "EUR"
    [] line = "EURN" -> "EUR"
    [] OTHER -> ""

\* The test on the line at the Code position: /^[A-Z0-9]{1,6}$/, not 'SY',
\* not 'Code', not a pure number.
LooksLikeSymbol(line) == line \in {"VTI", "VXUS", "B28A", "EURN", "USD", "EUR"}

\* /^[A-Z]{2,6}$/ on a data line: the loop over the values breaks there.
LettersOnly(line) == line \in {"VTI", "VXUS", "EURN", "SY", "USD", "EUR"}

\* Code is taken as missing when the line at index i + 8 looks like a symbol.
CodeMissing(lines, i) ==
  /\ i + 1 + numDataFields - 1 < Len(lines)
  /\ LooksLikeSymbol(lines[(i + 1 + numDataFields - 1) + 1])

\* lines.slice(i + 1, dataEndIndex)
RowLines(lines, i, codeWasMissing) ==
  SubSeq(lines, i + 2, IF codeWasMissing THEN i + 1 + numDataFields - 1
                       ELSE i + 1 + numDataFields)

\* The numbers of the data lines from index k, up to the first letters-only
\* line; lines that are not numbers are left out.
RECURSIVE Values(_, _)
Values(rowLines, k) ==
  IF k > Len(rowLines) THEN <<>>
  ELSE IF LettersOnly(rowLines[k]) THEN <<>>
  ELSE IF rowLines[k] \in NumberLines
    THEN <<ParseFloat(rowLines[k])>> \o Values(rowLines, k + 1)
  ELSE Values(rowLines, k + 1)

ActualRowSize(codeWasMissing) == IF codeWasMissing THEN rowSize - 1 ELSE rowSize

\* What one iteration of the outer while leaves: the cursor, the holdings,
\* whether the loop goes on, what was done and at which line.
Iteration(i, hs, pc, outcome, rowStart) ==
  [cursor |-> i, holdings |-> hs, pc |-> pc, outcome |-> outcome, rowStart |-> rowStart]

\* The holding pushed for a row with at least MinValues values.
PushedHolding(symbolLine, values) ==
  [symbol |-> ExtractSymbol(symbolLine),
   quantity |-> values[1],
   price |-> values[5],
   value |-> IF values[6] # 0 THEN values[6] ELSE values[1] * values[5],
   currency |-> ExtractCurrency(symbolLine)]

\* From the values on: too few values, the cursor skips the row; quantity or
\* price not positive, `continue` with the cursor where it is; otherwise the
\* holding is pushed and the cursor skips the row.
RowOutcome(i, hs, symbolLine, codeWasMissing, values) ==
  IF Len(values) < MinValues
    THEN Iteration(i + ActualRowSize(codeWasMissing), hs, "loop", "short", i)
  ELSE IF values[1] <= 0 \/ values[5] <= 0
    THEN Iteration(i, hs, "loop", "invalid", i)
  ELSE Iteration(i + ActualRowSize(codeWasMissing),
                 Append(hs, PushedHolding(symbolLine, values)), "loop", "parsed", i)

ParseRow(lines, i, hs) ==
  RowOutcome(i, hs, lines[i + 1], CodeMissing(lines, i),
             Values(RowLines(lines, i, CodeMissing(lines, i)), 1))

\* The iteration after the inner while, with the cursor at i.
AtLine(lines, i, hs) ==
  IF i >= Len(lines) THEN Iteration(i, hs, "returned", "eof", i)
  ELSE IF NotSymbolLine(lines[i + 1]) THEN Iteration(i + 1, hs, "loop", "notsymbol", i)
  ELSE IF SectionHeader(lines[i + 1]) THEN Iteration(i + 1, hs, "loop", "header", i)
  ELSE IF i + rowSize > Len(lines) THEN Iteration(i, hs, "returned", "incomplete", i)
  ELSE IF ExtractSymbol(lines[i + 1]) = "" THEN Iteration(i + 1, hs, "loop", "nosymbol", i)
  ELSE ParseRow(lines, i, hs)

VerticalIteration(lines, i, hs) == AtLine(lines, SkipFiller(lines, i), hs)

ApplyIteration(r) ==
  /\ cursor' = r.cursor
  /\ parsedHoldings' = r.holdings
  /\ parserLog' = [pc |-> r.pc, outcome |-> r.outcome, rowStart |-> r.rowStart,
                   iterations |-> parserLog.iterations + 1,
                   statementDate |-> parserLog.statementDate]

\* One iteration of `while (i < lines.length)`, the exit from the loop
\* included.
ParseIteration ==
  /\ text.layout = "vertical"
  /\ parserLog.pc = "loop"
  /\ parserLog.iterations < MaxIterations
  /\ ApplyIteration(VerticalIteration(text.lines, cursor, parsedHoldings))
  /\ UNCHANGED <<text, parses, dbVars, rebVars, matchVars, targetsVars, uploadVars, lookupVars, importVars>>

-----------------------------------------------------------------------------
(* The inputs of the parser specification *)

\* The symbol lines of the rows: three bare tickers (letters only, with
\* digits, beginning with the letters of a section prefix) and a ticker glued
\* behind the section prefix USD.
RowSymbols == {"VTI", "B28A", "EURN", "USDACWD"}

QuantityLine(symbol) == IF symbol \in {"VTI", "EURN"} THEN "10" ELSE "30"

\* The lines of one row of the section: complete with Code, complete without
\* Code, truncated after three numeric lines, nine lines of which two are
\* numeric, and complete with quantity 0.
LinesOfRow(row) ==
  CASE row.kind = "full" ->
         <<row.symbol, QuantityLine(row.symbol), "1", "2", "3", "4", "5", "-3", "SY">>
    [] row.kind = "nocode" ->
         <<row.symbol, QuantityLine(row.symbol), "1", "2", "3", "4", "5", "-3">>
    [] row.kind = "truncated" ->
         <<row.symbol, QuantityLine(row.symbol), "1", "2">>
    [] row.kind = "garbled" ->
         <<row.symbol, QuantityLine(row.symbol), "1", "n/a", "n/a", "n/a", "n/a", "n/a", "SY">>
    [] row.kind = "zero" ->
         <<row.symbol, "0", "1", "2", "3", "4", "5", "-3", "SY">>

RowKinds == {"full", "nocode", "truncated", "garbled", "zero"}

RECURSIVE LinesOfRows(_, _)
LinesOfRows(rows, k) ==
  IF k > Len(rows) THEN <<>> ELSE LinesOfRow(rows[k]) \o LinesOfRows(rows, k + 1)

\* Sections of up to n rows, then nothing or the "Total" line.
Sections(n) ==
  {[layout |-> "vertical", rows |-> rows, lines |-> LinesOfRows(rows, 1) \o trailer] :
     rows \in SeqsUpTo([kind : RowKinds, symbol : RowSymbols], n),
     trailer \in {<<>>, <<"Total">>}}

InitParser ==
  /\ EmptyDatabase
  /\ RebalancingIdle
  /\ MatcherIdle
  /\ TargetsIdle
  /\ UploadIdle
  /\ LookupIdle
  /\ ImportIdle
  /\ text \in Sections(MaxRows)
  /\ cursor = 0
  /\ parsedHoldings = <<>>
  /\ parserLog = ParserStart
  /\ parses = <<>>

NextParser == ParseIteration

SpecParser == InitParser /\ [][NextParser]_vars

\* C9: the vertical loop terminates and a skipped row moves the cursor
\* forward: after an iteration that skipped a row (fewer than MinValues
\* values, or quantity <= 0 or price <= 0) the cursor is 8 or 9 lines past
\* the row's symbol line, and the loop never runs more iterations than the
\* section has lines (plus the one that leaves it).
C9_SkippedRowAdvancesCursor ==
  /\ parserLog.outcome \in {"short", "invalid"} =>
       cursor - parserLog.rowStart \in {rowSize - 1, rowSize}
  /\ parserLog.iterations <= Len(text.lines) + 1

\* The vertical loop run to its end from an iteration result, at most fuel
\* iterations: the holdings parseOpenPositions returns.
RECURSIVE RunFrom(_, _, _)
RunFrom(lines, r, fuel) ==
  IF r.pc = "returned" \/ fuel = 0 THEN r.holdings
  ELSE RunFrom(lines, VerticalIteration(lines, r.cursor, r.holdings), fuel - 1)

ParseVertical(lines) == RunFrom(lines, Iteration(0, <<>>, "loop", "none", 0), MaxIterations)

WellFormedKinds == {"full", "nocode"}
CorruptedKinds == {"truncated", "garbled"}

\* The section is well formed but for one corrupted row, at index c.
OnlyCorruptedRow(c) ==
  /\ c \in DOMAIN text.rows
  /\ text.rows[c].kind \in CorruptedKinds
  /\ \A k \in DOMAIN text.rows \ {c} : text.rows[k].kind \in WellFormedKinds

\* The lines of the section without row c.
LinesWithoutRow(c) ==
  LinesOfRows(SubSeq(text.rows, 1, c - 1), 1)
    \o SubSeq(text.lines, Len(LinesOfRows(SubSeq(text.rows, 1, c), 1)) + 1, Len(text.lines))

\* A holding with the row's own symbol, quantity, price and value.
RowParsedIn(hs, row) ==
  \E h \in Range(hs) :
    /\ h.symbol = ExtractSymbol(row.symbol)
    /\ h.quantity = ParseFloat(QuantityLine(row.symbol))
    /\ h.price = 4
    /\ h.value = 5

\* C10: one corrupted row in an otherwise well-formed section costs at most
\* one holding, and every row after it that the parser reads without the
\* corrupted row is still parsed with its own symbol, quantity, price and
\* value.
C10_CorruptedRowCostsOneHolding ==
  \A c \in DOMAIN text.rows :
    (parserLog.pc = "returned" /\ OnlyCorruptedRow(c)) =>
      /\ Len(parsedHoldings) >= Len(ParseVertical(LinesWithoutRow(c))) - 1
      /\ \A k \in DOMAIN text.rows :
           (k > c /\ RowParsedIn(ParseVertical(LinesWithoutRow(c)), text.rows[k])) =>
             RowParsedIn(parsedHoldings, text.rows[k])

\* The window holds complete rows only, with or without Code.
CompleteRows == \A k \in DOMAIN text.rows : text.rows[k].kind \in WellFormedKinds

\* The holding of a complete row: the symbol the parser takes from its symbol
\* line, quantity (field 0), Close Price (field 4) and Value (field 5).
HoldingOfRow(row, h) ==
  /\ h.symbol = ExtractSymbol(row.symbol)
  /\ h.quantity = ParseFloat(QuantityLine(row.symbol))
  /\ h.price = 4
  /\ h.value = 5

\* C18: from a window of N complete rows (9 lines, or 8 without Code) the
\* parser returns N holdings in the order of the rows, each with its row's
\* symbol, quantity, price and value, the row after a Code-less row and the
\* last row of the window included.
C18_CompleteRowsAllParsed ==
  (parserLog.pc = "returned" /\ CompleteRows) =>
    /\ Len(parsedHoldings) = Len(text.rows)
    /\ \A k \in DOMAIN text.rows : HoldingOfRow(text.rows[k], parsedHoldings[k])

\* The ticker of a symbol line and the currency of its section prefix ("" for
\* a line without prefix): "USDACWD" is ACWD behind USD, the other symbol
\* lines of the model are bare tickers.
TickerOfLine(line) == IF line = "USDACWD" THEN "ACWD" ELSE line
PrefixCurrencyOfLine(line) == IF line = "USDACWD" THEN "USD" ELSE ""

FullRows == \A k \in DOMAIN text.rows : text.rows[k].kind = "full"

\* C19: the holding of a row has exactly the ticker of its symbol line, bare
\* or glued behind a section prefix, and the prefix's currency, undefined
\* without prefix.
C19_SymbolRecovered ==
  (parserLog.pc = "returned" /\ FullRows /\ Len(parsedHoldings) = Len(text.rows)) =>
    \A k \in DOMAIN text.rows :
      /\ parsedHoldings[k].symbol = TickerOfLine(text.rows[k].symbol)
      /\ parsedHoldings[k].currency = PrefixCurrencyOfLine(text.rows[k].symbol)

-----------------------------------------------------------------------------
(* Name lookups: GET /api/targets and POST /api/targets/upload-excel-preview *)

BATCH_SIZE == 5
MaxLookupTargets == 6

\* What the lookup service does with a lookup for target k: every target but
\* the faulty one has a name; for the faulty one the lookup throws, returns
\* nothing, stays silent (no answer before the caller's timer; the request
\* itself ends at its own timeout), or fails by ISIN only.
LookupOutcome(k, stage) ==
  IF k # lookupRequest.faulty THEN "name"
  ELSE IF lookupRequest.fault = "isinfails"
    THEN (IF stage = "isin" THEN "nothing" ELSE "name")
  ELSE lookupRequest.fault

NewLookup == [stage |-> "idle", name |-> "", abandoned |-> 0, warnings |-> 0]

\* try { name = await Promise.race([lookup, timer]) } catch { }: the name of
\* an answered lookup, null ("") after a throw, no answer or the timer.
CaughtMutant(outcome) == "Name"

Caught(outcome) == IF outcome = "name" THEN "Name" ELSE ""

\* The lookup a target of the listing starts with: by ISIN when it has one.
FirstStage(target) == IF target.isin THEN "isin" ELSE "ticker"

\* batch = targetsNeedingLookup.slice(i, i + BATCH_SIZE), 1-based.
Batch(i) == {k \in DOMAIN lookups : k > i /\ k <= i + BATCH_SIZE}

\* batch.map(async ...): every callback of the batch runs to its first await.
LaunchBatch(ls, i) ==
  [k \in DOMAIN ls |->
     IF k \in Batch(i)
       THEN [ls[k] EXCEPT !.stage = FirstStage(lookupRequest.targets[k])]
       ELSE ls[k]]

\* The callback of one target after a race has settled.
AfterRace(l, target, outcome) ==
  LET name == Caught(outcome)
      left == IF outcome = "silent" THEN l.abandoned + 1 ELSE l.abandoned
  IN IF l.stage = "isin" /\ name = "" /\ target.symbol
       THEN [l EXCEPT !.stage = "ticker", !.abandoned = left]
       ELSE [l EXCEPT !.stage = "done", !.name = name, !.abandoned = left]

Respond(status) == [pc |-> "responded", i |-> 0, status |-> status]

\* GET /api/targets up to the first await: the first batch is started, or the
\* response is sent when no target needs a lookup.
ListTargets ==
  /\ lookupRequest.flow = "listing"
  /\ lookupPc.pc = "new"
  /\ IF Len(lookupRequest.targets) = 0
       THEN /\ lookupPc' = Respond(200)
            /\ UNCHANGED lookups
       ELSE /\ lookups' = LaunchBatch(lookups, 0)
            /\ lookupPc' = [pc |-> "batch", i |-> 0, status |-> 0]
  /\ UNCHANGED <<lookupRequest, dbVars, rebVars, matchVars, targetsVars, uploadVars, parserVars, importVars>>

\* A race of target k settles; when it was the last of the batch,
\* Promise.allSettled resolves and the handler goes on to the delay or to the
\* response.
RaceSettles(k) ==
  /\ lookupRequest.flow = "listing"
  /\ lookupPc.pc = "batch"
  /\ k \in Batch(lookupPc.i)
  /\ lookups[k].stage \in {"isin", "ticker"}
  /\ LET ls == [lookups EXCEPT ![k] = AfterRace(@, lookupRequest.targets[k],
                                                LookupOutcome(k, @.stage))]
     IN /\ lookups' = ls
        /\ lookupPc' =
             IF \A j \in Batch(lookupPc.i) : ls[j].stage = "done"
               THEN IF lookupPc.i + BATCH_SIZE < Len(lookupRequest.targets)
                      THEN [lookupPc EXCEPT !.pc = "delay"]
                      ELSE Respond(200)
               ELSE lookupPc
  /\ UNCHANGED <<lookupRequest, dbVars, rebVars, matchVars, targetsVars, uploadVars, parserVars, importVars>>

\* The delay between two batches is over: the next batch is started.
BatchDelayElapsed ==
  /\ lookupPc.pc = "delay"
  /\ lookups' = LaunchBatch(lookups, lookupPc.i + BATCH_SIZE)
  /\ lookupPc' = [lookupPc EXCEPT !.pc = "batch", !.i = @ + BATCH_SIZE]
  /\ UNCHANGED <<lookupRequest, dbVars, rebVars, matchVars, targetsVars, uploadVars, parserVars, importVars>>

\* A lookup that lost its race ends by itself (its own request timeout).
AbandonedSettles(k) ==
  /\ lookups[k].abandoned > 0
  /\ lookups' = [lookups EXCEPT ![k].abandoned = @ - 1]
  /\ UNCHANGED <<lookupRequest, lookupPc, dbVars, rebVars, matchVars, targetsVars, uploadVars, parserVars, importVars>>

\* validateTarget up to its first await.
ValidateFirstStage(target) ==
  IF target.symbol THEN "ticker" ELSE IF target.isin THEN "isin" ELSE "done"

\* validateTarget after a lookup has settled: a warning unless a name came
\* back, then the ISIN lookup or the result.
AfterValidation(l, target, outcome) ==
  LET warned == IF Caught(outcome) = "" THEN l.warnings + 1 ELSE l.warnings
  IN IF l.stage = "ticker" /\ target.isin
       THEN [l EXCEPT !.stage = "isin", !.warnings = warned]
       ELSE [l EXCEPT !.stage = "done", !.warnings = warned]

\* STEP 2 of the preview: the targets looked up one after the other, those
\* without ticker but with ISIN (every target of the model lacks Instrument).
AutoDetects(j) ==
  {k \in DOMAIN lookups :
     /\ k >= j
     /\ ~lookupRequest.targets[k].symbol
     /\ lookupRequest.targets[k].isin}

AutoDetectFrom(ls, j) ==
  IF AutoDetects(j) = {}
    THEN /\ lookups' = ls
         /\ lookupPc' = Respond(200)
    ELSE LET k == CHOOSE x \in AutoDetects(j) : \A y \in AutoDetects(j) : x <= y
         IN /\ lookups' = [ls EXCEPT ![k].stage = "autodetect"]
            /\ lookupPc' = [pc |-> "autodetect", i |-> k, status |-> 0]

\* POST /upload-excel-preview up to the first await: validateTargets starts
\* validateTarget for every target at once (Promise.all over targets.map).
PreviewTargets ==
  /\ lookupRequest.flow = "preview"
  /\ lookupPc.pc = "new"
  /\ IF Len(lookupRequest.targets) = 0
       THEN /\ lookupPc' = Respond(400)
            /\ UNCHANGED lookups
       ELSE /\ lookups' = [k \in DOMAIN lookups |->
                             [lookups[k] EXCEPT
                                !.stage = ValidateFirstStage(lookupRequest.targets[k])]]
            /\ lookupPc' = [pc |-> "validating", i |-> 0, status |-> 0]
  /\ UNCHANGED <<lookupRequest, dbVars, rebVars, matchVars, targetsVars, uploadVars, parserVars, importVars>>

\* A lookup of validateTarget settles; with the last one Promise.all resolves
\* and the handler goes on to STEP 2.
ValidationSettles(k) ==
  /\ lookupPc.pc = "validating"
  /\ lookups[k].stage \in {"ticker", "isin"}
  /\ LET ls == [lookups EXCEPT ![k] = AfterValidation(@, lookupRequest.targets[k],
                                                      LookupOutcome(k, @.stage))]
     IN IF \A j \in DOMAIN ls : ls[j].stage = "done"
          THEN AutoDetectFrom(ls, 1)
          ELSE /\ lookups' = ls
               /\ UNCHANGED lookupPc
  /\ UNCHANGED <<lookupRequest, dbVars, rebVars, matchVars, targetsVars, uploadVars, parserVars, importVars>>

\* The lookupTickerFromISIN of STEP 2 settles.
AutoDetectSettles ==
  /\ lookupPc.pc = "autodetect"
  /\ AutoDetectFrom([lookups EXCEPT ![lookupPc.i].stage = "done"], lookupPc.i + 1)
  /\ UNCHANGED <<lookupRequest, dbVars, rebVars, matchVars, targetsVars, uploadVars, parserVars, importVars>>

\* The targets of a request: the first with a symbol, an ISIN or both, the
\* others with a symbol.
LookupTarget(symbol, isin) == [symbol |-> symbol, isin |-> isin, instrument |-> FALSE]

LookupTargetLists ==
  {[k \in 1..n |-> IF k = 1 THEN first ELSE LookupTarget(TRUE, FALSE)] :
     n \in 0..MaxLookupTargets,
     first \in {LookupTarget(TRUE, FALSE), LookupTarget(FALSE, TRUE), LookupTarget(TRUE, TRUE)}}

LookupFaults == {"throws", "nothing", "silent", "isinfails"}

InitLookup ==
  /\ EmptyDatabase
  /\ RebalancingIdle
  /\ MatcherIdle
  /\ TargetsIdle
  /\ UploadIdle
  /\ ParserIdle
  /\ ImportIdle
  /\ \E flow \in {"listing", "preview"}, targets \in LookupTargetLists :
       \E faulty \in 0..Len(targets) :
         \E fault \in (IF faulty = 0 THEN {"none"} ELSE LookupFaults) :
           lookupRequest = [flow |-> flow, targets |-> targets,
                            faulty |-> faulty, fault |-> fault]
  /\ lookups = [k \in DOMAIN lookupRequest.targets |-> NewLookup]
  /\ lookupPc = [pc |-> "new", i |-> 0, status |-> 0]

NextLookup ==
  \/ ListTargets
  \/ \E k \in DOMAIN lookups : RaceSettles(k)
  \/ BatchDelayElapsed
  \/ \E k \in DOMAIN lookups : AbandonedSettles(k)
  \/ PreviewTargets
  \/ \E k \in DOMAIN lookups : ValidationSettles(k)
  \/ AutoDetectSettles

\* Every lookup settles (each request of the lookup service has a timeout)
\* and every timer fires.
SpecLookup == InitLookup /\ [][NextLookup]_vars /\ WF_vars(NextLookup)

-----------------------------------------------------------------------------
(* Properties of the name lookups *)

Responded == lookupPc.pc = "responded"

FaultyHasNoName == lookupRequest.fault \in {"throws", "nothing", "silent"}

\* What a response must look like: not an error, every lookup of every target
\* run to its end, a name (no warning) for every target but the faulty one
\* and no name (a warning) for the faulty one.
BestEffortResponse ==
  (Responded /\ Len(lookupRequest.targets) > 0) =>
    /\ lookupPc.status = 200
    /\ \A k \in DOMAIN lookups :
         /\ lookups[k].stage = "done"
         /\ lookupRequest.flow = "listing" =>
              /\ k # lookupRequest.faulty => lookups[k].name = "Name"
              /\ (k = lookupRequest.faulty /\ FaultyHasNoName) => lookups[k].name = ""
         /\ lookupRequest.flow = "preview" =>
              /\ k # lookupRequest.faulty => lookups[k].warnings = 0
              /\ (k = lookupRequest.faulty /\ FaultyHasNoName) => lookups[k].warnings > 0

\* C13: when the lookup for one target throws, returns nothing or does not
\* answer in time, that target gets no name, the lookups of the other targets
\* of the same and of later batches run to completion, and the handler
\* eventually responds.
C13_LookupsBestEffort == [](BestEffortResponse) /\ <>Responded

\* A listing of more than one batch answered although a lookup of the first
\* batch never answered: that target has no name, all others have theirs.
C13_Witness ==
  /\ Responded
  /\ lookupRequest.flow = "listing"
  /\ Len(lookupRequest.targets) > BATCH_SIZE
  /\ lookupRequest.faulty \in 1..BATCH_SIZE
  /\ lookupRequest.fault = "silent"
  /\ lookups[lookupRequest.faulty].name = ""
  /\ \A k \in DOMAIN lookups : k # lookupRequest.faulty => lookups[k].name = "Name"

\* The targets with a lookup in flight: one the handler awaits, or one that
\* lost its race and has not ended yet.
InFlight ==
  {k \in DOMAIN lookups :
     lookups[k].stage \in {"isin", "ticker", "autodetect"} \/ lookups[k].abandoned > 0}

\* C14: at no time are lookups for more than 5 targets in flight, in the
\* listing and in the preview.
C14_AtMostFiveInFlight == Cardinality(InFlight) <= BATCH_SIZE

-----------------------------------------------------------------------------
(* parseOpenPositions, horizontal layout *)

MinParts == 6
MinNumbers == 5

\* A line of the horizontal layout is kept as its tokens, line.split(/\s+/).
\* Lines the loop steps over: empty, holding 'total' or '---', or shorter
\* than 5 characters (of the lines of the model, a lone short ticker).
HorizontalSkipped(parts) ==
  \/ parts = <<>>
  \/ \E j \in DOMAIN parts : parts[j] \in {"Total", "---"}
  \/ (Len(parts) = 1 /\ parts[1] \in {"VTI", "EURN"})

\* The first token without the section prefix it starts with (StocksEUR,
\* Stocks, USD, EUR), and the currency of that prefix.
HorizontalSymbol(token) ==
  CASE token = "USDACWD" -> "ACWD"
    [] token = "StocksEURIWDA" -> "IWDA"
    [] token = "EURN" -> "N"
    [] OTHER -> token

HorizontalCurrency(token) ==
  CASE token = "USDACWD" -> "USD"
    [] token = "StocksEURIWDA" -> "EUR"
    [] token = "EURN" -> "EUR"
    [] OTHER -> ""

\* parseFloat(parts[j].replace(/,/g, '').replace(/--/g, '0')) is a number.
IsNumberToken(token) == token \in NumberLines \cup {"--"}

NumberOfToken(token) == IF token = "--" THEN 0 ELSE ParseFloat(token)

\* numbers: the tokens from index j on that are numbers.
RECURSIVE Numbers(_, _)
Numbers(parts, j) ==
  IF j > Len(parts) THEN <<>>
  ELSE IF IsNumberToken(parts[j])
    THEN <<NumberOfToken(parts[j])>> \o Numbers(parts, j + 1)
  ELSE Numbers(parts, j + 1)

HorizontalHolding(parts, numbers) ==
  [symbol |-> HorizontalSymbol(parts[1]),
   quantity |-> numbers[1],
   price |-> numbers[5],
   value |-> IF Len(numbers) >= 6 /\ numbers[6] # 0
               THEN numbers[6] ELSE numbers[1] * numbers[5],
   currency |-> HorizontalCurrency(parts[1])]

\* The body of the for loop for one line, from its numbers on.
HorizontalOutcome(parts, numbers, hs) ==
  IF Len(numbers) < MinNumbers THEN [holdings |-> hs, outcome |-> "fewnumbers"]
  ELSE IF numbers[1] <= 0 \/ numbers[5] <= 0 THEN [holdings |-> hs, outcome |-> "invalid"]
  ELSE [holdings |-> Append(hs, HorizontalHolding(parts, numbers)), outcome |-> "parsed"]

HorizontalLine(parts, hs) ==
  IF HorizontalSkipped(parts) THEN [holdings |-> hs, outcome |-> "skipped"]
  ELSE IF Len(parts) < MinParts THEN [holdings |-> hs, outcome |-> "fewparts"]
  ELSE HorizontalOutcome(parts, Numbers(parts, 2), hs)

\* One iteration of `for (let i = headerIndex + 1; i < lines.length; i++)`,
\* the exit from the loop included.
HorizontalIteration ==
  /\ text.layout = "horizontal"
  /\ parserLog.pc = "loop"
  /\ IF cursor >= Len(text.lines)
       THEN /\ parserLog' = [parserLog EXCEPT !.pc = "returned", !.outcome = "eof",
                                              !.rowStart = cursor, !.iterations = @ + 1]
            /\ UNCHANGED <<cursor, parsedHoldings>>
       ELSE /\ cursor' = cursor + 1
            /\ parsedHoldings' = HorizontalLine(text.lines[cursor + 1], parsedHoldings).holdings
            /\ parserLog' = [parserLog EXCEPT
                               !.outcome = HorizontalLine(text.lines[cursor + 1],
                                                          parsedHoldings).outcome,
                               !.rowStart = cursor, !.iterations = @ + 1]
  /\ UNCHANGED <<text, parses, dbVars, rebVars, matchVars, targetsVars, uploadVars, lookupVars, importVars>>

\* The data lines of the model: complete with Code, with six and with five
\* numbers, with four numbers and Code, with five tokens, with quantity 0,
\* with '--' for the Close Price, a Total line, and a glued symbol.
HorizontalLines ==
  {<<"VTI", "10", "1", "2", "3", "4", "5", "-3", "SY">>,
   <<"VTI", "10", "1", "2", "3", "4", "5">>,
   <<"VTI", "10", "1", "2", "3", "4">>,
   <<"VTI", "10", "1", "2", "3", "SY">>,
   <<"VTI", "10", "1", "2", "3">>,
   <<"VTI", "0", "1", "2", "3", "4", "5", "-3", "SY">>,
   <<"VTI", "10", "1", "2", "3", "--", "5", "-3", "SY">>,
   <<"Total", "10", "1", "2", "3", "4", "5">>,
   <<"USDACWD", "30", "1", "2", "3", "4", "5", "-3", "SY">>}

\* The layout is horizontal when the line after the header has a comma or
\* matches /^\s*\w+\s+[\d.,]+\s+[\d.,]+\s+[\d.,]+/: a word and three unsigned
\* numbers.
IsHorizontalFormat(lines) ==
  /\ Len(lines) >= 1
  /\ Len(lines[1]) >= 4
  /\ \A j \in 2..4 : lines[1][j] \in NumberLines \ {"-3"}

HorizontalTexts ==
  {[layout |-> "horizontal", rows |-> <<>>, lines |-> lines] :
     lines \in {l \in SeqsUpTo(HorizontalLines, MaxRows) : IsHorizontalFormat(l)}}

InitHorizontal ==
  /\ EmptyDatabase
  /\ RebalancingIdle
  /\ MatcherIdle
  /\ TargetsIdle
  /\ UploadIdle
  /\ LookupIdle
  /\ ImportIdle
  /\ text \in HorizontalTexts
  /\ cursor = 0
  /\ parsedHoldings = <<>>
  /\ parserLog = ParserStart
  /\ parses = <<>>

NextHorizontal == HorizontalIteration

SpecHorizontal == InitHorizontal /\ [][NextHorizontal]_vars

\* The numeric tokens of a line after its symbol.
NumericTokens(parts) == {j \in DOMAIN parts : j >= 2 /\ parts[j] \in NumberLines}

\* C20: a line of the horizontal layout gives a holding only if it has at
\* least 6 numeric tokens after the symbol, quantity > 0 and price > 0.
C20_HorizontalRowFilter ==
  (text.layout = "horizontal" /\ parserLog.outcome = "parsed") =>
    LET parts == text.lines[parserLog.rowStart + 1] IN
      /\ Cardinality(NumericTokens(parts)) >= 6
      /\ parsedHoldings[Len(parsedHoldings)].quantity > 0
      /\ parsedHoldings[Len(parsedHoldings)].price > 0

-----------------------------------------------------------------------------
(* parseIBStatementCSV, the rows of Open Positions *)

MinCsvParts == 12

\* parts[k] || fallback, for the k-th field of a line counted from 1.
CsvField(parts, k, fallback) ==
  IF k <= Len(parts) /\ parts[k] # "" THEN parts[k] ELSE fallback

CsvQuantity(parts) == ParseFloat(CsvField(parts, 7, "0"))
CsvMult(parts) == ParseFloat(CsvField(parts, 8, "1"))
CsvClosePrice(parts) == ParseFloat(CsvField(parts, 11, "0"))
CsvValue(parts) == ParseFloat(CsvField(parts, 12, "0"))

\* The row is an 'Open Positions,Data' row with at least 12 fields.
IsCsvDataRow(parts) ==
  /\ Len(parts) >= MinCsvParts
  /\ parts[1] = "Open Positions"
  /\ parts[2] = "Data"

\* Totals and summaries of other kinds are skipped.
CsvRowAccepted(parts) ==
  /\ parts[3] = "Summary"
  /\ parts[6] # ""
  /\ parts[6] # "Total"
  /\ CsvQuantity(parts) > 0
  /\ CsvClosePrice(parts) > 0

CsvHolding(parts) ==
  [symbol |-> parts[6],
   quantity |-> CsvQuantity(parts) * CsvMult(parts),
   price |-> CsvClosePrice(parts),
   value |-> IF CsvValue(parts) # 0 THEN CsvValue(parts)
             ELSE CsvQuantity(parts) * CsvMult(parts) * CsvClosePrice(parts),
   currency |-> parts[5]]

CsvLine(parts, hs) ==
  IF ~IsCsvDataRow(parts) THEN [holdings |-> hs, outcome |-> "skipped"]
  ELSE IF ~CsvRowAccepted(parts) THEN [holdings |-> hs, outcome |-> "invalid"]
  ELSE [holdings |-> Append(hs, CsvHolding(parts)), outcome |-> "parsed"]

\* line.split(','): a line is given by its fields, each field by the pieces
\* of its text between the commas it contains (one piece for a field without
\* comma, several for a quoted value with commas); the split yields every
\* piece as a part of its own.
RECURSIVE SplitLine(_)
SplitLine(fields) ==
  IF fields = <<>> THEN <<>> ELSE Head(fields) \o SplitLine(Tail(fields))

\* parts[3].match(/(\w+\s+\d+,\s+\d{4})\s*-\s*(\w+\s+\d+,\s+\d{4})/): the
\* texts that hold a range of two dates `Month D, YYYY`, and the end date of
\* the range as new Date(...).toISOString() gives it in UTC.
PeriodEndDate(part) ==
  CASE part = "October 1, 2025 - October 31, 2025" -> "2025-10-31"
    [] OTHER -> ""

\* parts[3].match(/(\d{4}-\d{2}-\d{2})/)
GeneratedDate(part) ==
  CASE part \in {"2025-11-29", "\"2025-11-29"} -> "2025-11-29"
    [] OTHER -> ""

\* statementDate after a line, from the date before it.
CsvStatementDate(parts, statementDate) ==
  IF CsvField(parts, 1, "") = "Statement" /\ CsvField(parts, 2, "") = "Data"
    THEN IF CsvField(parts, 3, "") = "Period" /\ CsvField(parts, 4, "") # ""
           THEN IF PeriodEndDate(parts[4]) # "" THEN PeriodEndDate(parts[4])
                ELSE statementDate
         ELSE IF CsvField(parts, 3, "") = "WhenGenerated" /\ CsvField(parts, 4, "") # ""
           THEN IF GeneratedDate(parts[4]) # "" THEN GeneratedDate(parts[4])
                ELSE statementDate
         ELSE statementDate
    ELSE statementDate

\* One iteration of `for (let i = 0; i < lines.length; i++)`, the exit from
\* the loop included.
CsvIteration ==
  /\ text.layout = "csv"
  /\ parserLog.pc = "loop"
  /\ IF cursor >= Len(text.lines)
       THEN /\ parserLog' = [parserLog EXCEPT !.pc = "returned", !.outcome = "eof",
                                              !.rowStart = cursor, !.iterations = @ + 1]
            /\ UNCHANGED <<cursor, parsedHoldings>>
       ELSE /\ cursor' = cursor + 1
            /\ parsedHoldings' = CsvLine(text.lines[cursor + 1], parsedHoldings).holdings
            /\ parserLog' = [parserLog EXCEPT
                               !.outcome = CsvLine(text.lines[cursor + 1],
                                                   parsedHoldings).outcome,
                               !.statementDate = CsvStatementDate(text.lines[cursor + 1], @),
                               !.rowStart = cursor, !.iterations = @ + 1]
  /\ UNCHANGED <<text, parses, dbVars, rebVars, matchVars, targetsVars, uploadVars, lookupVars, importVars>>

\* The lines of the CSV statements of the model: the header of the section, a
\* row with value, a row with multiplier 2 and no value, the Total row, and a
\* row with quantity 0.
CsvHeader == <<"Open Positions", "Header", "DataDiscriminator">>

CsvRows ==
  {<<"Open Positions", "Data", "Summary", "Stocks", "USD", "VTI",
     "10", "1", "2", "3", "4", "5", "-3", "SY">>,
   <<"Open Positions", "Data", "Summary", "Stocks", "USD", "ACWD",
     "30", "2", "2", "3", "4", "", "-3", "SY">>,
   <<"Open Positions", "Data", "Total", "", "USD", "",
     "", "", "", "3", "", "5", "-3", "">>,
   <<"Open Positions", "Data", "Summary", "Stocks", "USD", "VTI",
     "0", "1", "2", "3", "4", "5", "-3", "SY">>}

\* The lines of the statements of the CSV specification, as fields: the
\* Period and WhenGenerated rows of the Statement section with their quoted
\* values, a WhenGenerated row without a date, and Open Positions rows with
\* value, with multiplier 0 and with quantity 0.
PeriodLine ==
  <<<<"Statement">>, <<"Data">>, <<"Period">>,
    <<"\"October 1", "2025 - October 31", "2025\"">>>>

WhenGeneratedLine ==
  <<<<"Statement">>, <<"Data">>, <<"WhenGenerated">>, <<"\"2025-11-29", "14:16:04 EST\"">>>>

FieldsOf(parts) == [k \in DOMAIN parts |-> <<parts[k]>>]

StatementLines ==
  {PeriodLine, WhenGeneratedLine,
   FieldsOf(<<"Statement", "Data", "WhenGenerated", "unknown">>),
   FieldsOf(<<"Open Positions", "Data", "Summary", "Stocks", "USD", "VTI",
              "10", "1", "2", "3", "4", "5", "-3", "SY">>),
   FieldsOf(<<"Open Positions", "Data", "Summary", "Stocks", "USD", "VTI",
              "10", "0", "2", "3", "4", "5", "-3", "SY">>),
   FieldsOf(<<"Open Positions", "Data", "Summary", "Stocks", "USD", "ACWD",
              "0", "1", "2", "3", "4", "5", "-3", "SY">>)}

CsvTexts ==
  {[layout |-> "csv", rows |-> rows,
    lines |-> <<CsvHeader>> \o [k \in DOMAIN rows |-> SplitLine(rows[k])]] :
     rows \in SeqsUpTo(StatementLines, MaxRows)}

InitCsv ==
  /\ EmptyDatabase
  /\ RebalancingIdle
  /\ MatcherIdle
  /\ TargetsIdle
  /\ UploadIdle
  /\ LookupIdle
  /\ ImportIdle
  /\ text \in CsvTexts
  /\ cursor = 0
  /\ parsedHoldings = <<>>
  /\ parserLog = ParserStart
  /\ parses = <<>>

NextCsv == CsvIteration

SpecCsv == InitCsv /\ [][NextCsv]_vars

\* The value of the Statement/Data row of the given name, as the statement
\* has it (the pieces of the field), or <<>>.
StatementValues(name) ==
  {text.rows[k][4] : k \in {j \in DOMAIN text.rows :
                              /\ text.rows[j][1] = <<"Statement">>
                              /\ text.rows[j][2] = <<"Data">>
                              /\ text.rows[j][3] = <<name>>}}

\* The end date of a Period value "Month D, YYYY - Month D, YYYY" and the
\* date of a WhenGenerated value, as the statement states them.
PeriodRangeEnd(value) ==
  IF value = <<"\"October 1", "2025 - October 31", "2025\"">> THEN "2025-10-31" ELSE ""

WhenGeneratedDay(value) ==
  IF value = <<"\"2025-11-29", "14:16:04 EST\"">> THEN "2025-11-29" ELSE ""

\* C21: parseIBStatementCSV returns the end date of the Period range when the
\* statement has a Period row with a range, else the date of a WhenGenerated
\* row when it has one with a date, else the current date.
C21_CsvStatementDate ==
  (text.layout = "csv" /\ parserLog.pc = "returned") =>
    LET periods == {PeriodRangeEnd(v) : v \in StatementValues("Period")} \ {""}
        generated == {WhenGeneratedDay(v) : v \in StatementValues("WhenGenerated")} \ {""}
    IN IF periods # {} THEN parserLog.statementDate \in periods
       ELSE IF generated # {} THEN parserLog.statementDate \in generated
       ELSE parserLog.statementDate = "today"

\* C25: every holding a statement parser emits has quantity > 0 and
\* price > 0; in the CSV path the quantity is the stored one, after the
\* multiplier.
C25_EmittedHoldingsPositive ==
  \A k \in DOMAIN parsedHoldings :
    parsedHoldings[k].quantity > 0 /\ parsedHoldings[k].price > 0

-----------------------------------------------------------------------------
(* Repeated calls of the parsers *)

MaxParses == 3

\* `const holdings: ParsedHolding[] = []`: the list a call starts with,
\* whatever the call before it returned.
FreshHoldingsMutant(previous) == previous
FreshHoldings(previous) == <<>>

\* The statements that are parsed again and again: vertical sections with two
\* complete rows, with a row without Code before a complete row, and with a
\* bare ticker that begins with EUR; horizontal sections with complete lines,
\* and with a line of five numbers before a Total line; CSV statements of
\* two rows.
ReparseRows ==
  {<<[kind |-> "full", symbol |-> "VTI"], [kind |-> "full", symbol |-> "USDACWD"]>>,
   <<[kind |-> "nocode", symbol |-> "B28A"], [kind |-> "full", symbol |-> "VTI"]>>,
   <<[kind |-> "full", symbol |-> "EURN"]>>}

ReparseLines ==
  {<<<<"VTI", "10", "1", "2", "3", "4", "5", "-3", "SY">>,
     <<"USDACWD", "30", "1", "2", "3", "4", "5", "-3", "SY">>>>,
   <<<<"VTI", "10", "1", "2", "3", "4">>, <<"Total", "10", "1", "2", "3", "4", "5">>>>}

ReparseCsv ==
  {<<r1, r2>> : r1 \in {r \in CsvRows : r[6] = "VTI"}, r2 \in {r \in CsvRows : r[6] # "VTI"}}

ReparseTexts ==
  {[layout |-> "vertical", rows |-> rows, lines |-> LinesOfRows(rows, 1)] :
     rows \in ReparseRows}
  \cup {[layout |-> "horizontal", rows |-> <<>>, lines |-> lines] :
          lines \in {l \in ReparseLines : IsHorizontalFormat(l)}}
  \cup {[layout |-> "csv", rows |-> <<>>, lines |-> <<CsvHeader>> \o lines] :
          lines \in ReparseCsv}

\* A call has returned its holdings and the next call begins, on the same
\* text or on another one, with the locals of a new call.
ParseCall ==
  /\ parserLog.pc = "returned"
  /\ Len(parses) < MaxParses
  /\ parses' = Append(parses, [text |-> text, holdings |-> parsedHoldings])
  /\ text' \in ReparseTexts
  /\ cursor' = 0
  /\ parsedHoldings' = FreshHoldings(parsedHoldings)
  /\ parserLog' = ParserStart
  /\ UNCHANGED <<dbVars, rebVars, matchVars, targetsVars, uploadVars, lookupVars, importVars>>

InitReparse ==
  /\ EmptyDatabase
  /\ RebalancingIdle
  /\ MatcherIdle
  /\ TargetsIdle
  /\ UploadIdle
  /\ LookupIdle
  /\ ImportIdle
  /\ text \in ReparseTexts
  /\ cursor = 0
  /\ parsedHoldings = <<>>
  /\ parserLog = ParserStart
  /\ parses = <<>>

NextReparse ==
  \/ ParseIteration
  \/ HorizontalIteration
  \/ CsvIteration
  \/ ParseCall

SpecReparse == InitReparse /\ [][NextReparse]_vars

-----------------------------------------------------------------------------
(* The symbol mappings router and DELETE /api/targets/:id *)

\* The row of symbol_mappings with UNIQUE(account_id, holding_symbol).
ExistingMapping(mappings, account_id, holding_symbol) ==
  {k \in DOMAIN mappings :
     /\ mappings[k].account_id = account_id
     /\ mappings[k].holding_symbol = holding_symbol}

\* POST /api/symbol-mappings with a target_id: 400 when no target has the id,
\* else the existing row is updated or a new one inserted.
SaveMapping(account_id, holding_symbol, target_id) ==
  /\ LET existing == ExistingMapping(symbol_mappings, account_id, holding_symbol)
     IN IF \A t \in DOMAIN target_allocations : target_allocations[t].id # target_id
          THEN UNCHANGED symbol_mappings
        ELSE IF existing # {}
          THEN symbol_mappings' =
                 [k \in DOMAIN symbol_mappings |->
                    IF k \in existing
                      THEN [symbol_mappings[k] EXCEPT !.target_id = target_id]
                      ELSE symbol_mappings[k]]
        ELSE symbol_mappings' =
               Append(symbol_mappings,
                      [account_id |-> account_id, holding_symbol |-> holding_symbol,
                       target_id |-> target_id])
  /\ UNCHANGED <<holdings, target_allocations, target_history, seq_target,
                 rebVars, matchVars, targetsVars, uploadVars, parserVars, lookupVars, importVars>>

\* POST /api/symbol-mappings with target_id null: the row, if any, is deleted.
ClearMapping(account_id, holding_symbol) ==
  /\ ExistingMapping(symbol_mappings, account_id, holding_symbol) # {}
  /\ symbol_mappings' =
       SelectSeq(symbol_mappings,
                 LAMBDA m : ~(m.account_id = account_id /\ m.holding_symbol = holding_symbol))
  /\ UNCHANGED <<holdings, target_allocations, target_history, seq_target,
                 rebVars, matchVars, targetsVars, uploadVars, parserVars, lookupVars, importVars>>

\* DELETE /api/targets/:id.  foreign_keys is ON here (the default of the
\* driver, and set ON again at the end of every commit-excel), and
\* symbol_mappings.target_id REFERENCES target_allocations(id) without ON
\* DELETE action: deleting a referenced target throws and the handler
\* answers 500.
DeleteTarget(id) ==
  /\ \E t \in DOMAIN target_allocations : target_allocations[t].id = id
  /\ IF \E k \in DOMAIN symbol_mappings : symbol_mappings[k].target_id = id
       THEN /\ targetsLog' = [op |-> "delete", status |-> 500, body |-> <<>>,
                              before |-> TargetsDb]
            /\ UNCHANGED target_allocations
       ELSE /\ targetsLog' = [op |-> "delete", status |-> 204, body |-> <<>>,
                              before |-> TargetsDb]
            /\ target_allocations' = SelectSeq(target_allocations, LAMBDA t : t.id # id)
  /\ UNCHANGED <<holdings, symbol_mappings, target_history, seq_target,
                 rebVars, matchVars, uploadVars, parserVars, lookupVars, importVars>>

\* The requests of the mappings specification: targets are created one by
\* one or replaced by a new set, mappings of VXUS are saved and cleared in
\* both accounts for every id a target had (and one no target had yet).
MappingCommits == {<<>>, <<<<TickerShape, 76>>>>}

InitMappings ==
  /\ EmptyDatabase
  /\ RebalancingIdle
  /\ MatcherIdle
  /\ TargetsIdle
  /\ UploadIdle
  /\ ParserIdle
  /\ LookupIdle
  /\ ImportIdle

NextMappings ==
  \/ PostTarget(<<TickerShape, 24>>)
  \/ \E targets \in MappingCommits : CommitExcel(targets)
  \/ \E a \in Accounts, id \in 1..(seq_target + 1) : SaveMapping(a, "VXUS", id)
  \/ \E a \in Accounts : ClearMapping(a, "VXUS")
  \/ \E id \in 1..seq_target : DeleteTarget(id)

SpecMappings == InitMappings /\ [][NextMappings]_vars

\* C29: every row of symbol_mappings references a row of target_allocations
\* that exists, after any sequence of mapping saves and clears, target
\* deletions and commits of a new target set.
C29_MappingsReferToTargets ==
  \A k \in DOMAIN symbol_mappings :
    \E t \in DOMAIN target_allocations :
      target_allocations[t].id = symbol_mappings[k].target_id

-----------------------------------------------------------------------------
(* parseTargetCsv, parseTargetExcel and the answer of upload-excel-preview *)

\* The percentage cells of the model.  Percentages are kept in thousandths of
\* a percent, so that 0.05 is 50 and 100 is 100000.
PercentageCells == {"0.05", "1", "5%", "100", "101", "0", "abc", "-1"}

\* String(cell || '0').replace(/%/g, '').trim()
RawPercentage(cell) ==
  CASE cell = "" -> "0"
    [] cell = "5%" -> "5"
    [] OTHER -> cell

\* isNaN(parseFloat(raw))
PercentageIsNaN(raw) == raw \notin {"0.05", "1", "5", "100", "101", "0", "-1"}

\* parseFloat(raw), in thousandths.
ParsePercentage(raw) ==
  CASE raw = "0.05" -> 50
    [] raw = "1" -> 1000
    [] raw = "5" -> 5000
    [] raw = "100" -> 100000
    [] raw = "101" -> 101000
    [] raw = "-1" -> -1000
    [] OTHER -> 0

\* A value at most 1 taken for a fraction.
NormalizePercentageMutant(percentage) ==
  IF percentage > 0 /\ percentage <= 1000 THEN percentage * 100 ELSE percentage

\* if (!isNaN(percentage) && percentage > 0 && percentage < 1) percentage *= 100
NormalizePercentage(percentage) ==
  IF percentage > 0 /\ percentage < 1000 THEN percentage * 100 ELSE percentage

\* The data rows of a file in the order of the file: a blank row, or a row
\* with its Asset Type and % cells.
FileRows ==
  {[blank |-> TRUE, assetType |-> "", percentage |-> ""]}
  \cup {[blank |-> FALSE, assetType |-> "Shares", percentage |-> c] : c \in PercentageCells}
  \cup {[blank |-> FALSE, assetType |-> "", percentage |-> "5%"]}

\* The rows the loop of the parser runs over, each with the index i the loop
\* has for it (header: i = 0).  parseTargetCsv drops the blank lines before
\* the loop; sheet_to_json keeps blank rows and the Excel loop steps over them.
RECURSIVE LoopRows(_, _, _, _)
LoopRows(kind, rows, k, i) ==
  IF k > Len(rows) THEN <<>>
  ELSE IF rows[k].blank
    THEN LoopRows(kind, rows, k + 1, IF kind = "csv" THEN i ELSE i + 1)
  ELSE <<[row |-> rows[k], line |-> k, i |-> i]>> \o LoopRows(kind, rows, k + 1, i + 1)

\* The body of the loop for one row: an error `Row ${i + 1}: ...`, nothing
\* (0%), or a target.  line is the place of the row in the file.
ParseTargetRow(acc, r) ==
  LET raw == RawPercentage(r.row.percentage)
      nan == PercentageIsNaN(raw)
      percentage == IF nan THEN 0 ELSE NormalizePercentage(ParsePercentage(raw))
  IN IF r.row.assetType = ""
       THEN [acc EXCEPT !.errors = Append(@, [row |-> r.i + 1, error |-> "Missing Asset Type"])]
     ELSE IF nan \/ percentage < 0 \/ percentage > 100000
       THEN [acc EXCEPT !.errors = Append(@, [row |-> r.i + 1, error |-> "Invalid percentage"])]
     ELSE IF percentage = 0 THEN acc
     ELSE [acc EXCEPT !.targets = Append(@, [assetType |-> "Stock",
                                             targetPercentage |-> percentage,
                                             line |-> r.line])]

RECURSIVE ParseTargetRows(_, _, _)
ParseTargetRows(loopRows, k, acc) ==
  IF k > Len(loopRows) THEN acc
  ELSE ParseTargetRows(loopRows, k + 1, ParseTargetRow(acc, loopRows[k]))

\* parseTargetCsv / parseTargetExcel on a file with a header row: a file
\* without data row is refused as a whole.
ParseTargetFile(file) ==
  IF Len(LoopRows(file.kind, file.rows, 1, 1)) = 0 /\ (file.kind = "csv" \/ Len(file.rows) = 0)
    THEN [targets |-> <<>>, errors |-> <<[row |-> 0, error |-> "no data row"]>>]
  ELSE ParseTargetRows(LoopRows(file.kind, file.rows, 1, 1), 1,
                       [targets |-> <<>>, errors |-> <<>>])

\* What upload-excel-preview answers for a parsed file: 400 with the errors
\* when the parser reported any, 400 without any target, else the targets
\* (the names and warnings validation adds to them are left out here).
PreviewAnswer(parsed) ==
  IF Len(parsed.errors) > 0
    THEN [status |-> 400, errors |-> parsed.errors, targets |-> <<>>]
  ELSE IF Len(parsed.targets) = 0
    THEN [status |-> 400, errors |-> <<[row |-> 0, error |-> "No targets found"]>>,
          targets |-> <<>>]
  ELSE [status |-> 200, errors |-> <<>>, targets |-> parsed.targets]

\* POST /upload-excel-preview
UploadPreview ==
  /\ preview = <<>>
  /\ preview' = <<[parsed |-> ParseTargetFile(targetFile),
                   answer |-> PreviewAnswer(ParseTargetFile(targetFile))]>>
  /\ UNCHANGED <<targetFile, dbVars, rebVars, matchVars, targetsVars, uploadVars,
                 parserVars, lookupVars>>

InitImport ==
  /\ EmptyDatabase
  /\ RebalancingIdle
  /\ MatcherIdle
  /\ TargetsIdle
  /\ UploadIdle
  /\ ParserIdle
  /\ LookupIdle
  /\ targetFile \in [kind : {"csv", "excel"}, rows : SeqsUpTo(FileRows, MaxRows)]
  /\ preview = <<>>

NextImport == UploadPreview

SpecImport == InitImport /\ [][NextImport]_vars

\* The raw percentage of a row of the file, in thousandths, for the cells
\* that hold a number.
RawThousandths(row) == ParsePercentage(RawPercentage(row.percentage))

RowFails(row) ==
  /\ ~row.blank
  /\ \/ row.assetType = ""
     \/ PercentageIsNaN(RawPercentage(row.percentage))
     \/ RawThousandths(row) < 0
     \/ RawThousandths(row) > 100000

RowValidates(row) == ~row.blank /\ ~RowFails(row) /\ RawThousandths(row) # 0

\* C24: every row that fails validation is reported with its row number (the
\* header is row 1) and left out, and the rows that validate are all in the
\* answer, together with the errors.
C24_PartialSuccess ==
  preview # <<>> =>
    \A k \in DOMAIN targetFile.rows :
      /\ RowFails(targetFile.rows[k]) =>
           /\ \E e \in DOMAIN preview[1].answer.errors :
                preview[1].answer.errors[e].row = k + 1
           /\ \A j \in DOMAIN preview[1].answer.targets :
                preview[1].answer.targets[j].line # k
      /\ RowValidates(targetFile.rows[k]) =>
           \E j \in DOMAIN preview[1].answer.targets :
             preview[1].answer.targets[j].line = k

=============================================================================
